---- MODULE Spec2Model ----
(***************************************************************************)
(* A model of the scoring engine TrinityEngineV2 (trinity_engine_v2.py).   *)
(*                                                                         *)
(* Representation.                                                         *)
(*   - Hanja symbols are written in pinyin (the stem 戊 is "wu", the       *)
(*     branch 午 is "wu_b": two different symbols in the source), Korean   *)
(*     symbols in revised romanisation.  The Korean stem 신(辛) and the    *)
(*     Korean branch 신(申) are the same string in the source and are the  *)
(*     same string "sin" here.                                             *)
(*   - Hanja elements are "wood","fire","earth","metal","water"; Korean    *)
(*     elements are "mok","hwa","to","geum","su".                          *)
(*   - A float score is an integer number of thousandths: every value the  *)
(*     engine computes is k * 0.3, k * 0.7 or that times 0.67 for k in     *)
(*     {30, 15, -20, 0}, an exact number of thousandths, and the IEEE      *)
(*     results of round() and of the "+.1f" format agree with the exact    *)
(*     arithmetic below on all of them.                                    *)
(*   - A date string is a record [wellFormed, y, m, d]: whether the text   *)
(*     has the shape digits-digits-digits, and the numbers it spells.  A   *)
(*     time string is [colon, hourInt, hour, minute]: whether it holds a   *)
(*     ":", whether the text before the first ":" is accepted by int(),    *)
(*     and the numbers it spells.                                          *)
(***************************************************************************)
EXTENDS Integers, Sequences, FiniteSets, TLC

VARIABLES
    pc, args, saju, trinity_score, ret, \* one call of calculate_daily_luck
    th, log,                            \* calls by threads on one shared engine
    fn_arg, fn_ret,                     \* one application of a helper function
    deep_pc, body, hourly_raw, response, \* one request of a 24-hour endpoint
    jobs, phase,                        \* the seller: the jobs and their phase on chain
    hpc, hres, spc, TX_LOCK,            \*   the job threads and the signing threads
    job_results,                        \*   the module's dict of stored results
    epc, ejob, estored,                 \*   the frames of on_evaluate
    poll_pc, poll_keys, processed,      \*   the polling thread
    calls,                              \*   how often each call was made for each job
    sales_file, sales_lock,             \* the sales log: sales_log.json and _sales_lock
    sale_pc, sale_log, sale_hist,       \*   the threads calling save_sale / load_sales_log
    now, backtest_source,               \* the agent: the clock, what a backtest report holds now
    backtest_cache, cache_timestamp,    \*   TrinityACPAgent._backtest_cache, ._cache_timestamp
    va_ret, va_hist                     \*   the last call of verify_accuracy, the last result stored

engineVars == <<pc, args, saju, trinity_score, ret>>
threadVars == <<th, log>>
fnVars     == <<fn_arg, fn_ret>>
deepVars   == <<deep_pc, body, hourly_raw, response>>
sellerVars == <<jobs, phase, hpc, hres, spc, TX_LOCK, job_results,
                epc, ejob, estored, poll_pc, poll_keys, processed, calls>>
salesVars  == <<sales_file, sales_lock, sale_pc, sale_log, sale_hist>>
cacheVars  == <<now, backtest_source, backtest_cache, cache_timestamp, va_ret, va_hist>>
vars       == <<pc, args, saju, trinity_score, ret, th, log, fn_arg, fn_ret,
               deep_pc, body, hourly_raw, response,
               jobs, phase, hpc, hres, spc, TX_LOCK, job_results,
               epc, ejob, estored, poll_pc, poll_keys, processed, calls,
               sales_file, sales_lock, sale_pc, sale_log, sale_hist,
               now, backtest_source, backtest_cache, cache_timestamp, va_ret, va_hist>>

None == [none |-> TRUE]

(***************************************************************************)
(* Constant tables (lines 84-152).                                         *)
(***************************************************************************)
HEAVENLY_STEMS_KO ==
    <<"gap", "eul", "byeong", "jeong", "mu", "gi", "gyeong", "sin", "im", "gye">>

EARTHLY_BRANCHES_KO ==
    <<"ja", "chuk", "in", "myo", "jin", "sa", "o", "mi", "sin", "yu", "sul", "hae">>

HEAVENLY_STEMS ==
    <<"jia", "yi", "bing", "ding", "wu", "ji", "geng", "xin", "ren", "gui">>

EARTHLY_BRANCHES ==
    <<"zi", "chou", "yin", "mao", "chen", "si", "wu_b", "wei", "shen", "you", "xu", "hai">>

STEM_ELEMENT_MAP_KO ==
    [gap |-> "mok", eul |-> "mok",
     byeong |-> "hwa", jeong |-> "hwa",
     mu |-> "to", gi |-> "to",
     gyeong |-> "geum", sin |-> "geum",
     im |-> "su", gye |-> "su"]

BRANCH_ELEMENT_MAP_KO ==
    [in |-> "mok", myo |-> "mok",
     sa |-> "hwa", o |-> "hwa",
     jin |-> "to", sul |-> "to", chuk |-> "to", mi |-> "to",
     sin |-> "geum", yu |-> "geum",
     ja |-> "su", hae |-> "su"]

STEM_ELEMENTS ==
    [jia |-> "wood", yi |-> "wood",
     bing |-> "fire", ding |-> "fire",
     wu |-> "earth", ji |-> "earth",
     geng |-> "metal", xin |-> "metal",
     ren |-> "water", gui |-> "water"]

BRANCH_ELEMENTS ==
    [zi |-> "water", hai |-> "water",
     yin |-> "wood", mao |-> "wood",
     si |-> "fire", wu_b |-> "fire",
     shen |-> "metal", you |-> "metal",
     chen |-> "earth", xu |-> "earth", chou |-> "earth", wei |-> "earth"]

CONTROL_MAP ==
    [mok |-> "to", hwa |-> "geum", to |-> "su", geum |-> "mok", su |-> "hwa"]

CLASH_PAIRS ==
    <<<<"zi", "wu_b">>, <<"chou", "wei">>, <<"yin", "shen">>,
      <<"mao", "you">>, <<"chen", "xu">>, <<"si", "hai">>>>

HARMONY_PAIRS ==
    <<<<"zi", "chou">>, <<"yin", "hai">>, <<"mao", "xu">>,
      <<"chen", "you">>, <<"si", "shen">>, <<"wu_b", "wei">>>>

\* list membership: x in xs
InList(x, xs) == \E i \in 1..Len(xs) : xs[i] = x

\* list.index(x), 0-based; the first position holding x
ListIndex(xs, x) == (CHOOSE i \in 1..Len(xs) : xs[i] = x /\ \A j \in 1..(i-1) : xs[j] # x) - 1

\* xs[i] of a Python list raises no IndexError: -len(xs) <= i < len(xs)
PyIndexOk(xs, i) == 0 - Len(xs) <= i /\ i < Len(xs)

\* xs[i] of a Python list, a negative i counting from the end
PyGet(xs, i) == xs[(IF i < 0 THEN i + Len(xs) ELSE i) + 1]

(***************************************************************************)
(* Utility functions (lines 157-213).                                      *)
(***************************************************************************)
get_element(gan_or_ji) ==
    IF gan_or_ji \in DOMAIN STEM_ELEMENT_MAP_KO THEN STEM_ELEMENT_MAP_KO[gan_or_ji]
    ELSE IF gan_or_ji \in DOMAIN BRANCH_ELEMENT_MAP_KO THEN BRANCH_ELEMENT_MAP_KO[gan_or_ji]
    ELSE "to"

\* CONTROL_MAP.get(from_elem) == to_elem
controls_element(from_elem, to_elem) ==
    from_elem \in DOMAIN CONTROL_MAP /\ CONTROL_MAP[from_elem] = to_elem

\* in units of one point (30.0, 15.0, -20.0, 0.0)
evaluate_element(gan_or_ji, yongsin, heesin) ==
    LET element == get_element(gan_or_ji)
    IN  IF element = yongsin THEN 30
        ELSE IF element = heesin THEN 15
        ELSE IF controls_element(element, yongsin) THEN -20
        ELSE 0

\* the indices of lines 203-204 without the remainder
GanziIndicesNoWrap(year) ==
    [stem_index   |-> year - 2024 + 0 + 10,
     branch_index |-> year - 2024 + 4 + 12]

\* lines 203-204
GanziIndices(year) ==
    [stem_index   |-> (year - 2024 + 0 + 10) % 10,
     branch_index |-> (year - 2024 + 4 + 12) % 12]

\* lines 206-207 raise no IndexError
GanziLookupsOk(year) ==
    /\ PyIndexOk(HEAVENLY_STEMS_KO, GanziIndices(year).stem_index)
    /\ PyIndexOk(EARTHLY_BRANCHES_KO, GanziIndices(year).branch_index)

get_ganzi_for_year(year) ==
    [gan |-> PyGet(HEAVENLY_STEMS_KO, GanziIndices(year).stem_index),
     ji  |-> PyGet(EARTHLY_BRANCHES_KO, GanziIndices(year).branch_index)]

(***************************************************************************)
(* datetime.strptime(text, "%Y-%m-%d"): the text must have the shape       *)
(* digits-digits-digits, the year is 1..9999, the month 1..12 and the day  *)
(* one of that month of that year (Gregorian leap years).  A ValueError    *)
(* otherwise.                                                              *)
(***************************************************************************)
IsLeap(y) == (y % 4 = 0 /\ y % 100 # 0) \/ y % 400 = 0

DaysInMonth(y, m) ==
    IF m = 2 THEN (IF IsLeap(y) THEN 29 ELSE 28)
    ELSE IF m \in {4, 6, 9, 11} THEN 30
    ELSE 31

StrptimeOk(text) ==
    /\ text.wellFormed
    /\ text.y \in 1..9999
    /\ text.m \in 1..12
    /\ text.d \in 1..DaysInMonth(text.y, text.m)

(***************************************************************************)
(* TrinityEngineV2._validate_inputs (lines 261-284): the message of the    *)
(* ValueError it raises, or "ok".                                          *)
(***************************************************************************)
\* the validation letting hour 24 pass
ValidateInputsHour24(birth_date, birth_time, target_date, gender) ==
    IF ~(StrptimeOk(birth_date) /\ StrptimeOk(target_date))
    THEN "Invalid date format (expected YYYY-MM-DD)"
    ELSE IF ~birth_time.colon
    THEN "Invalid time format (expected HH:MM)"
    ELSE IF ~birth_time.hourInt \/ ~(0 <= birth_time.hour /\ birth_time.hour <= 24)
    THEN "Invalid time format"
    ELSE IF ~InList(gender, <<"M", "F">>)
    THEN "Gender must be 'M' or 'F'"
    ELSE "ok"

ValidateInputs(birth_date, birth_time, target_date, gender) ==
    IF ~(StrptimeOk(birth_date) /\ StrptimeOk(target_date))
    THEN "Invalid date format (expected YYYY-MM-DD)"
    ELSE IF ~birth_time.colon
    THEN "Invalid time format (expected HH:MM)"
    ELSE IF ~birth_time.hourInt \/ ~(0 <= birth_time.hour /\ birth_time.hour <= 23)
    THEN "Invalid time format"
    ELSE IF ~InList(gender, <<"M", "F">>)
    THEN "Gender must be 'M' or 'F'"
    ELSE "ok"

(***************************************************************************)
(* _calculate_elements (lines 335-343): the tally, a function on the five  *)
(* Hanja elements.  ElementOrder is the insertion order of the dict, which *)
(* is the order min() and max() iterate it in.                             *)
(***************************************************************************)
ElementOrder == <<"wood", "fire", "earth", "metal", "water">>

PillarList(pillars) == <<pillars.year, pillars.month, pillars.day, pillars.hour>>

\* the tally of the stems alone
CalculateElementsStemsOnly(pillars) ==
    [e \in {ElementOrder[i] : i \in 1..5} |->
        Cardinality({i \in 1..4 : STEM_ELEMENTS[PillarList(pillars)[i].gan] = e})]

\* lines 340-341 raise no KeyError
ElementKeysOk(pillars) ==
    \A i \in 1..4 :
        /\ PillarList(pillars)[i].gan \in DOMAIN STEM_ELEMENTS
        /\ PillarList(pillars)[i].zhi \in DOMAIN BRANCH_ELEMENTS

CalculateElements(pillars) ==
    [e \in {ElementOrder[i] : i \in 1..5} |->
        Cardinality({i \in 1..4 : STEM_ELEMENTS[PillarList(pillars)[i].gan] = e})
      + Cardinality({i \in 1..4 : BRANCH_ELEMENTS[PillarList(pillars)[i].zhi] = e})]

(***************************************************************************)
(* _count_clashes / _count_harmonies (lines 345-367): the pairs i < j of   *)
(* the four branches that are in the list in either order.                 *)
(***************************************************************************)
\* the pairs found in the order the list spells them only
CountPairsForwardOnly(pillars, pairs) ==
    LET branches == [i \in 1..4 |-> PillarList(pillars)[i].zhi]
    IN  Cardinality({p \in (1..4) \X (1..4) :
            /\ p[1] < p[2]
            /\ InList(<<branches[p[1]], branches[p[2]]>>, pairs)})

\* the inner loop over all the branches, not over branches[i+1:]
CountPairsEveryOrder(pillars, pairs) ==
    LET branches == [i \in 1..4 |-> PillarList(pillars)[i].zhi]
    IN  Cardinality({p \in (1..4) \X (1..4) :
            /\ p[1] # p[2]
            /\ \/ InList(<<branches[p[1]], branches[p[2]]>>, pairs)
               \/ InList(<<branches[p[2]], branches[p[1]]>>, pairs)})

CountPairs(pillars, pairs) ==
    LET branches == [i \in 1..4 |-> PillarList(pillars)[i].zhi]
    IN  Cardinality({p \in (1..4) \X (1..4) :
            /\ p[1] < p[2]
            /\ \/ InList(<<branches[p[1]], branches[p[2]]>>, pairs)
               \/ InList(<<branches[p[2]], branches[p[1]]>>, pairs)})

CountClashes(pillars) == CountPairs(pillars, CLASH_PAIRS)

CountHarmonies(pillars) == CountPairs(pillars, HARMONY_PAIRS)

(***************************************************************************)
(* _calculate_yongsin (lines 369-394).  min(elements, key=elements.get)    *)
(* is the first key, in the dict's order, whose count no key undercuts.    *)
(***************************************************************************)
\* max() where min() is meant
MinKeyTakesMax(elements) ==
    LET i == CHOOSE k \in 1..5 :
                /\ \A j \in 1..5 : elements[ElementOrder[k]] >= elements[ElementOrder[j]]
                /\ \A j \in 1..(k-1) : elements[ElementOrder[j]] < elements[ElementOrder[k]]
    IN  ElementOrder[i]

MinKey(elements) ==
    LET i == CHOOSE k \in 1..5 :
                /\ \A j \in 1..5 : elements[ElementOrder[k]] <= elements[ElementOrder[j]]
                /\ \A j \in 1..(k-1) : elements[ElementOrder[j]] > elements[ElementOrder[k]]
    IN  ElementOrder[i]

\* the iteration order of element_to_sector (lines 547-553)
SectorOrder == <<"fire", "earth", "water", "metal", "wood">>

\* the first maximum in the order of the sector table
MaxKeySectorOrder(elements) ==
    LET i == CHOOSE k \in 1..5 :
                /\ \A j \in 1..5 : elements[SectorOrder[k]] >= elements[SectorOrder[j]]
                /\ \A j \in 1..(k-1) : elements[SectorOrder[j]] < elements[SectorOrder[k]]
    IN  SectorOrder[i]

MaxKey(elements) ==
    LET i == CHOOSE k \in 1..5 :
                /\ \A j \in 1..5 : elements[ElementOrder[k]] >= elements[ElementOrder[j]]
                /\ \A j \in 1..(k-1) : elements[ElementOrder[j]] < elements[ElementOrder[k]]
    IN  ElementOrder[i]

hanja_to_ko ==
    [wood |-> "mok", fire |-> "hwa", earth |-> "to", metal |-> "geum", water |-> "su"]

sheng_map ==
    [mok |-> "su", hwa |-> "mok", to |-> "hwa", geum |-> "to", su |-> "geum"]

SumElements(elements) ==
    elements["wood"] + elements["fire"] + elements["earth"]
      + elements["metal"] + elements["water"]

CalculateYongsin(elements) ==
    LET yongsin_hanja  == MinKey(elements)
        yongsin        == hanja_to_ko[yongsin_hanja]
        total_elements == SumElements(elements)
    IN  [yongsin |-> yongsin,
         heesin  |-> sheng_map[yongsin],
         \* elements[yongsin_hanja] > total_elements / 5
         strong  |-> IF total_elements > 0
                     THEN 5 * elements[yongsin_hanja] > total_elements
                     ELSE FALSE]

(***************************************************************************)
(* _calculate_saju (lines 286-333).  birth_date has passed strptime;       *)
(* int(birth_time.split(":")[0]) is birth_time.hour.  SajuIndices is the   *)
(* index arithmetic of lines 293-305; % is the non-negative remainder in   *)
(* Python as here.                                                         *)
(***************************************************************************)
\* the hour branch from hour // 2
SajuIndicesHourFloor(birth_date, birth_time) ==
    LET hour         == birth_time.hour
        day_gan_idx  == (birth_date.d - 1) % 10
        hour_zhi_idx == (hour \div 2) % 12
    IN  [year_gan_idx  |-> (birth_date.y - 4) % 10,
         year_zhi_idx  |-> (birth_date.y - 4) % 12,
         month_gan_idx |-> (birth_date.m - 1) % 10,
         month_zhi_idx |-> (birth_date.m - 1) % 12,
         day_gan_idx   |-> day_gan_idx,
         day_zhi_idx   |-> (birth_date.d - 1) % 12,
         hour_zhi_idx  |-> hour_zhi_idx,
         hour_gan_idx  |-> (day_gan_idx * 2 + hour_zhi_idx) % 10]

\* the hour taken to the nearest full hour of the birth time
SajuIndicesRoundedHour(birth_date, birth_time) ==
    LET hour         == birth_time.hour + (IF birth_time.minute >= 30 THEN 1 ELSE 0)
        day_gan_idx  == (birth_date.d - 1) % 10
        hour_zhi_idx == ((hour + 1) \div 2) % 12
    IN  [year_gan_idx  |-> (birth_date.y - 4) % 10,
         year_zhi_idx  |-> (birth_date.y - 4) % 12,
         month_gan_idx |-> (birth_date.m - 1) % 10,
         month_zhi_idx |-> (birth_date.m - 1) % 12,
         day_gan_idx   |-> day_gan_idx,
         day_zhi_idx   |-> (birth_date.d - 1) % 12,
         hour_zhi_idx  |-> hour_zhi_idx,
         hour_gan_idx  |-> (day_gan_idx * 2 + hour_zhi_idx) % 10]

SajuIndices(birth_date, birth_time) ==
    LET hour         == birth_time.hour
        day_gan_idx  == (birth_date.d - 1) % 10
        hour_zhi_idx == ((hour + 1) \div 2) % 12
    IN  [year_gan_idx  |-> (birth_date.y - 4) % 10,
         year_zhi_idx  |-> (birth_date.y - 4) % 12,
         month_gan_idx |-> (birth_date.m - 1) % 10,
         month_zhi_idx |-> (birth_date.m - 1) % 12,
         day_gan_idx   |-> day_gan_idx,
         day_zhi_idx   |-> (birth_date.d - 1) % 12,
         hour_zhi_idx  |-> hour_zhi_idx,
         hour_gan_idx  |-> (day_gan_idx * 2 + hour_zhi_idx) % 10]

\* lines 308-311 raise no IndexError
SajuLookupsOk(birth_date, birth_time) ==
    LET ix == SajuIndices(birth_date, birth_time)
    IN  /\ \A i \in {ix.year_gan_idx, ix.month_gan_idx, ix.day_gan_idx, ix.hour_gan_idx} :
              PyIndexOk(HEAVENLY_STEMS, i)
        /\ \A i \in {ix.year_zhi_idx, ix.month_zhi_idx, ix.day_zhi_idx, ix.hour_zhi_idx} :
              PyIndexOk(EARTHLY_BRANCHES, i)

SajuPillars(birth_date, birth_time) ==
    LET ix == SajuIndices(birth_date, birth_time)
    IN  [year  |-> [gan |-> PyGet(HEAVENLY_STEMS, ix.year_gan_idx),
                    zhi |-> PyGet(EARTHLY_BRANCHES, ix.year_zhi_idx)],
         month |-> [gan |-> PyGet(HEAVENLY_STEMS, ix.month_gan_idx),
                    zhi |-> PyGet(EARTHLY_BRANCHES, ix.month_zhi_idx)],
         day   |-> [gan |-> PyGet(HEAVENLY_STEMS, ix.day_gan_idx),
                    zhi |-> PyGet(EARTHLY_BRANCHES, ix.day_zhi_idx)],
         hour  |-> [gan |-> PyGet(HEAVENLY_STEMS, ix.hour_gan_idx),
                    zhi |-> PyGet(EARTHLY_BRANCHES, ix.hour_zhi_idx)]]

CalculateSaju(birth_date, birth_time, gender) ==
    LET pillars == SajuPillars(birth_date, birth_time)
        elements == CalculateElements(pillars)
    IN  [pillars       |-> pillars,
         birth_date    |-> [y |-> birth_date.y, m |-> birth_date.m, d |-> birth_date.d],
         birth_time    |-> birth_time,
         gender        |-> gender,
         elements      |-> elements,
         clash_count   |-> CountClashes(pillars),
         harmony_count |-> CountHarmonies(pillars),
         yongsin_data  |-> CalculateYongsin(elements)]

(***************************************************************************)
(* _get_current_daewoon (lines 434-467).  // is floor division, as \div.   *)
(***************************************************************************)
\* the decade cycle from the age in full years (no + 1)
GetCurrentDaewoonFullYears(s, target_year) ==
    LET birth_year      == s.birth_date.y
        age             == target_year - birth_year
        start_offset    == 3
        daewoon_cycle   == (age - start_offset) \div 10
        start_age       == start_offset + (daewoon_cycle * 10)
        month_gan_idx   == ListIndex(HEAVENLY_STEMS, s.pillars.month.gan)
        month_zhi_idx   == ListIndex(EARTHLY_BRANCHES, s.pillars.month.zhi)
        daewoon_gan_idx == (month_gan_idx + daewoon_cycle + 1) % 10
        daewoon_zhi_idx == (month_zhi_idx + daewoon_cycle + 1) % 12
    IN  [gan        |-> HEAVENLY_STEMS_KO[daewoon_gan_idx + 1],
         ji         |-> EARTHLY_BRANCHES_KO[daewoon_zhi_idx + 1],
         start_age  |-> start_age,
         end_age    |-> start_age + 10,
         start_year |-> birth_year + start_age - 1]

\* lines 438-455
DaewoonIndices(s, target_year) ==
    LET birth_year      == s.birth_date.y
        age             == target_year - birth_year + 1
        start_offset    == 3
        daewoon_cycle   == (age - start_offset) \div 10
        month_gan_idx   == ListIndex(HEAVENLY_STEMS, s.pillars.month.gan)
        month_zhi_idx   == ListIndex(EARTHLY_BRANCHES, s.pillars.month.zhi)
    IN  [start_age       |-> start_offset + (daewoon_cycle * 10),
         daewoon_gan_idx |-> (month_gan_idx + daewoon_cycle + 1) % 10,
         daewoon_zhi_idx |-> (month_zhi_idx + daewoon_cycle + 1) % 12]

\* lines 451-452 raise no ValueError (list.index finds the symbol) and
\* lines 457-458 no IndexError
DaewoonLookupsOk(s, target_year) ==
    /\ InList(s.pillars.month.gan, HEAVENLY_STEMS)
    /\ InList(s.pillars.month.zhi, EARTHLY_BRANCHES)
    /\ PyIndexOk(HEAVENLY_STEMS_KO, DaewoonIndices(s, target_year).daewoon_gan_idx)
    /\ PyIndexOk(EARTHLY_BRANCHES_KO, DaewoonIndices(s, target_year).daewoon_zhi_idx)

GetCurrentDaewoon(s, target_year) ==
    LET birth_year == s.birth_date.y
        ix         == DaewoonIndices(s, target_year)
        start_age  == ix.start_age
    IN  [gan        |-> PyGet(HEAVENLY_STEMS_KO, ix.daewoon_gan_idx),
         ji         |-> PyGet(EARTHLY_BRANCHES_KO, ix.daewoon_zhi_idx),
         start_age  |-> start_age,
         end_age    |-> start_age + 10,
         start_year |-> birth_year + start_age - 1]

(***************************************************************************)
(* _calculate_daewoon_score_v2 (lines 469-488), in thousandths:            *)
(* gan_score * 0.3 + ji_score * 0.7.                                       *)
(***************************************************************************)
CalculateDaewoonScore(s, target_year) ==
    LET daewoon   == GetCurrentDaewoon(s, target_year)
        gan_score == evaluate_element(daewoon.gan, s.yongsin_data.yongsin, s.yongsin_data.heesin)
        ji_score  == evaluate_element(daewoon.ji, s.yongsin_data.yongsin, s.yongsin_data.heesin)
    IN  IF s.yongsin_data = None THEN 0
        ELSE gan_score * 300 + ji_score * 700

(***************************************************************************)
(* _calculate_seun_score_v2 (lines 490-511), in thousandths:               *)
(* (gan_score * 0.3 + ji_score * 0.7) * 0.67.                              *)
(***************************************************************************)
CalculateSeunScore(s, target_year) ==
    LET seun      == get_ganzi_for_year(target_year)
        gan_score == evaluate_element(seun.gan, s.yongsin_data.yongsin, s.yongsin_data.heesin)
        ji_score  == evaluate_element(seun.ji, s.yongsin_data.yongsin, s.yongsin_data.heesin)
    IN  IF s.yongsin_data = None THEN 0
        ELSE (gan_score * 3 + ji_score * 7) * 67

\* the interaction score adding the clashes
InteractionScoreClashAdds(s) == s.harmony_count * 5 + s.clash_count * 5

\* _calculate_interaction_score (lines 513-523), in points
CalculateInteractionScore(s) == s.harmony_count * 5 - s.clash_count * 5

\* the thresholds passed only above them
DetermineKeywordStrict(score) ==
    IF score > 80 THEN "STRONG_BULLISH"
    ELSE IF score > 65 THEN "BULLISH"
    ELSE IF score > 45 THEN "NEUTRAL"
    ELSE IF score > 30 THEN "BEARISH"
    ELSE "STRONG_BEARISH"

\* _determine_keyword (lines 525-536)
DetermineKeyword(score) ==
    IF score >= 80 THEN "STRONG_BULLISH"
    ELSE IF score >= 65 THEN "BULLISH"
    ELSE IF score >= 45 THEN "NEUTRAL"
    ELSE IF score >= 30 THEN "BEARISH"
    ELSE "STRONG_BEARISH"

(***************************************************************************)
(* Python's round(x) of a float that is n / unit exactly: the nearest      *)
(* integer, a tie going to the even one.                                   *)
(***************************************************************************)
\* rounding with a tie going up
PyRoundHalfUp(n, unit) ==
    LET q == n \div unit
        r == n % unit
    IN  IF 2 * r >= unit THEN q + 1 ELSE q

PyRound(n, unit) ==
    LET q == n \div unit
        r == n % unit
    IN  IF 2 * r > unit THEN q + 1
        ELSE IF 2 * r < unit THEN q
        ELSE IF q % 2 = 0 THEN q ELSE q + 1

(***************************************************************************)
(* f"{x:+.1f}" of a score of n thousandths, as a number of tenths.  The    *)
(* floats the engine produces that lie halfway between two tenths (10.05   *)
(* and -3.35) are stored just beyond the half, so the tie goes away from   *)
(* zero.                                                                   *)
(***************************************************************************)
FormatTenths(n) ==
    LET a == IF n < 0 THEN -n ELSE n
        t == (a + 50) \div 100
    IN  IF n < 0 THEN -t ELSE t

Max2(a, b) == IF a >= b THEN a ELSE b

Min2(a, b) == IF a <= b THEN a ELSE b

(***************************************************************************)
(* _calculate_trinity_score_v2 (lines 396-432).  score is the float sum    *)
(* in thousandths.                                                         *)
(***************************************************************************)
\* the score without the clamp of line 420
CalculateTrinityScoreNoClamp(s, target_year) ==
    LET daewoon_score     == CalculateDaewoonScore(s, target_year)
        seun_score        == CalculateSeunScore(s, target_year)
        interaction_score == CalculateInteractionScore(s)
        score             == 50000 + daewoon_score + seun_score + interaction_score * 1000
        final_score       == PyRound(score, 1000)
    IN  [total_score       |-> final_score,
         daewoon_score     |-> daewoon_score,
         seun_score        |-> seun_score,
         interaction_score |-> interaction_score,
         keyword           |-> DetermineKeyword(final_score),
         breakdown         |-> <<>>]

CalculateTrinityScore(s, target_year) ==
    LET daewoon_score     == CalculateDaewoonScore(s, target_year)
        seun_score        == CalculateSeunScore(s, target_year)
        interaction_score == CalculateInteractionScore(s)
        score             == 50000 + daewoon_score + seun_score + interaction_score * 1000
        final_score       == Max2(10, Min2(95, PyRound(score, 1000)))
        \* an entry is the Korean label ("daeun", "seun", "sanghojagyong"), the
        \* number printed after it, in tenths, and the decimals it is printed with
        breakdown         ==
            <<[label |-> "daeun", tenths |-> FormatTenths(daewoon_score), decimals |-> 1],
              [label |-> "seun", tenths |-> FormatTenths(seun_score), decimals |-> 1]>>
            \o (IF interaction_score # 0
                THEN <<[label |-> "sanghojagyong", tenths |-> interaction_score * 10,
                        decimals |-> 0]>>
                ELSE <<>>)
    IN  [total_score       |-> final_score,
         daewoon_score     |-> daewoon_score,
         seun_score        |-> seun_score,
         interaction_score |-> interaction_score,
         keyword           |-> DetermineKeyword(final_score),
         breakdown         |-> breakdown]

(***************************************************************************)
(* _map_to_crypto_terms (lines 538-576).  trading_luck_score is            *)
(* round((total_score - 10) / 85, 2) as a number of hundredths.            *)
(***************************************************************************)
element_to_sector ==
    [fire  |-> <<"MEME", "AI", "VOLATILE">>,
     earth |-> <<"INFRASTRUCTURE", "LAYER1", "BTC">>,
     water |-> <<"DEFI", "EXCHANGE", "LIQUIDITY">>,
     metal |-> <<"RWA", "STABLECOIN">>,
     wood  |-> <<"NEW_LISTING", "GAMEFI", "NFT">>]

\* the volatility HIGH from two clashes and the sentiment STABLE from one harmony
MapToCryptoTermsFromTwoAndOne(ts, s) ==
    LET dominant_element == MaxKey(s.elements)
    IN  [trading_luck_score |-> PyRound((ts.total_score - 10) * 100, 85),
         favorable_sectors  |-> element_to_sector[dominant_element],
         volatility_index   |-> IF s.clash_count >= 2 THEN "HIGH" ELSE "LOW",
         market_sentiment   |-> IF s.harmony_count >= 1 THEN "STABLE" ELSE "VOLATILE",
         wealth_opportunity |-> IF ts.total_score >= 70 THEN "HIGH"
                                ELSE IF ts.total_score >= 50 THEN "MEDIUM" ELSE "LOW",
         raw_score          |-> ts.total_score,
         breakdown          |-> ts.breakdown,
         keyword            |-> ts.keyword]

\* line 555 raises no KeyError
SectorKeyOk(s) == MaxKey(s.elements) \in DOMAIN element_to_sector

MapToCryptoTerms(ts, s) ==
    LET dominant_element == MaxKey(s.elements)
    IN  [trading_luck_score |-> PyRound((ts.total_score - 10) * 100, 85),
         favorable_sectors  |-> element_to_sector[dominant_element],
         volatility_index   |-> IF s.clash_count > 2 THEN "HIGH" ELSE "LOW",
         market_sentiment   |-> IF s.harmony_count > 1 THEN "STABLE" ELSE "VOLATILE",
         wealth_opportunity |-> IF ts.total_score >= 70 THEN "HIGH"
                                ELSE IF ts.total_score >= 50 THEN "MEDIUM" ELSE "LOW",
         raw_score          |-> ts.total_score,
         breakdown          |-> ts.breakdown,
         keyword            |-> ts.keyword]

(***************************************************************************)
(* calculate_daily_luck (lines 225-259): the ValueError of the validation, *)
(* the exception of a table lookup (an IndexError of a list subscript, a   *)
(* KeyError of a dict subscript, the ValueError of list.index), which      *)
(* nothing in the call catches, or the call's saju, score and result.      *)
(***************************************************************************)
\* the element of a set of one element
Only(S) == CHOOSE x \in S : TRUE

ScoreAndMap(s, target_year) ==
    IF ~ElementKeysOk(s.pillars)
    THEN [raised |-> TRUE, error |-> "LookupError", message |-> "saju"]
    ELSE IF ~(DaewoonLookupsOk(s, target_year) /\ GanziLookupsOk(target_year))
    THEN [raised |-> TRUE, error |-> "LookupError", message |-> "score"]
    ELSE IF ~SectorKeyOk(s)
    THEN [raised |-> TRUE, error |-> "LookupError", message |-> "sector"]
    ELSE Only({[raised |-> FALSE, saju |-> s, trinity_score |-> ts,
                result |-> MapToCryptoTerms(ts, s)] :
                   ts \in {CalculateTrinityScore(s, target_year)}})

CalculateDailyLuck(birth_date, birth_time, target_date, gender) ==
    LET checked     == ValidateInputs(birth_date, birth_time, target_date, gender)
    IN  IF checked # "ok"
        THEN [raised |-> TRUE, error |-> "ValueError", message |-> checked]
        ELSE IF ~SajuLookupsOk(birth_date, birth_time)
        THEN [raised |-> TRUE, error |-> "LookupError", message |-> "saju"]
        ELSE Only({ScoreAndMap(s, target_date.y) :
                      s \in {CalculateSaju(birth_date, birth_time, gender)}})

(***************************************************************************)
(* The inputs of the checks.                                               *)
(*   BirthSweep: every birth date of the example's birth year and every    *)
(*     birth hour, against the target years up to the example's (the       *)
(*     anchor year 2024 among them).                                       *)
(*   YearSweep: every birth date of the birth years, at three birth hours, *)
(*     against target years in steps of 7 years (7 is prime to 10 and to   *)
(*     12) from before the birth to decades after it.                      *)
(*   EdgeInputs: a few dates, times and genders, valid and not, in every   *)
(*     combination.                                                        *)
(*   ExtremeInputs: two calls whose unclamped sums are the lowest (-3.4)   *)
(*     and the highest (120.1) the engine computes for births 1960-2019.   *)
(***************************************************************************)
ExampleBirthYear == 1990

ExampleTargetYear == 2026

BirthYearSpan == 2

TargetNear == 2

TargetFar == 2

BirthYears == ExampleBirthYear..(ExampleBirthYear + BirthYearSpan)

NearTargetYears == (ExampleTargetYear - TargetNear)..ExampleTargetYear

FarTargetYears == {ExampleTargetYear + 7 * k : k \in (0 - 3 * TargetFar)..TargetFar}

Date(y, m, d) == [wellFormed |-> TRUE, y |-> y, m |-> m, d |-> d]

Time(h, mi) == [colon |-> TRUE, hourInt |-> TRUE, hour |-> h, minute |-> mi]

BirthDates(years) ==
    UNION {{Date(y, m, d) : d \in 1..DaysInMonth(y, m)} : y \in years, m \in 1..12}

BirthSweep ==
    [birth_date  : BirthDates({ExampleBirthYear}),
     birth_time  : {Time(h, 30) : h \in 0..23},
     target_date : {Date(ty, 2, 20) : ty \in NearTargetYears},
     gender      : {"M"}]

YearSweep ==
    [birth_date  : BirthDates(BirthYears),
     birth_time  : {Time(h, 30) : h \in {0, 14, 23}},
     target_date : {Date(ty, 2, 20) : ty \in FarTargetYears},
     gender      : {"M"}]

EdgeDates ==
    {Date(1990, 5, 15), Date(2026, 2, 20), Date(2026, 12, 31), Date(1992, 2, 29),
     Date(2023, 13, 40), Date(1990, 2, 29), Date(1990, 4, 31), Date(1990, 0, 15),
     Date(1990, 5, 0), Date(0, 5, 15), Date(1, 1, 1), Date(9999, 12, 31),
     [wellFormed |-> FALSE, y |-> 0, m |-> 0, d |-> 0]}

EdgeTimes ==
    {Time(14, 30), Time(14, 0), Time(13, 59), Time(0, 0), Time(23, 99), Time(25, 99),
     Time(24, 0), Time(0 - 1, 30),
     [colon |-> TRUE, hourInt |-> FALSE, hour |-> 0, minute |-> 30],
     [colon |-> FALSE, hourInt |-> TRUE, hour |-> 14, minute |-> 0]}

EdgeGenders == {"M", "F", "X", "m", ""}

EdgeInputs ==
    [birth_date : EdgeDates, birth_time : EdgeTimes,
     target_date : EdgeDates, gender : EdgeGenders]

ExtremeInputs ==
    {[birth_date  |-> Date(1968, 3, 3), birth_time |-> Time(16, 0),
      target_date |-> Date(1988, 1, 1), gender |-> "F"],
     [birth_date  |-> Date(1962, 3, 12), birth_time |-> Time(22, 0),
      target_date |-> Date(1979, 1, 1), gender |-> "F"]}

Inputs == BirthSweep \cup YearSweep \cup EdgeInputs \cup ExtremeInputs

(***************************************************************************)
(* Spec: one call of calculate_daily_luck.  The arguments are drawn at     *)
(* the start and the call either raises or returns; saju and               *)
(* trinity_score are the call's locals.                                    *)
(***************************************************************************)
InitEngine ==
    /\ args \in Inputs
    /\ pc = "called"
    /\ saju = None
    /\ trinity_score = None
    /\ ret = None

CallRaises ==
    /\ pc = "called"
    /\ ValidateInputs(args.birth_date, args.birth_time, args.target_date, args.gender) # "ok"
    /\ \E out \in {CalculateDailyLuck(args.birth_date, args.birth_time,
                                       args.target_date, args.gender)} :
           /\ pc' = "raised"
           /\ ret' = [error |-> out.error, message |-> out.message]
    /\ UNCHANGED <<args, saju, trinity_score>>

\* the validation passes: the call returns, unless a lookup of lines 248-257
\* raises
CallReturns ==
    /\ pc = "called"
    /\ ValidateInputs(args.birth_date, args.birth_time, args.target_date, args.gender) = "ok"
    /\ \E out \in {CalculateDailyLuck(args.birth_date, args.birth_time,
                                       args.target_date, args.gender)} :
           IF out.raised
           THEN /\ pc' = "failed"
                /\ ret' = [error |-> out.error, message |-> out.message]
                /\ UNCHANGED <<saju, trinity_score>>
           ELSE /\ pc' = "returned"
                /\ saju' = out.saju
                /\ trinity_score' = out.trinity_score
                /\ ret' = out.result
    /\ UNCHANGED args

(***************************************************************************)
(* SpecThreads: threads calling calculate_daily_luck on the one            *)
(* module-level engine (handlers.py line 19, acp_agent.py line 43), again  *)
(* and again.  The instance has no attribute (__init__, lines 221-223), so *)
(* a call's state is its frame: th[t] holds the frame of thread t, and a   *)
(* thread is switched between the statements of lines 245-259.  log is the *)
(* history of the completed calls: the arguments, the outcome, and whether  *)
(* a call was in progress on another thread when it completed.             *)
(***************************************************************************)
NumThreads == 2

Threads == 1..NumThreads

ThreadInputs ==
    {[birth_date  |-> Date(1990, 5, 15), birth_time |-> Time(14, 30),
      target_date |-> Date(2026, 2, 20), gender |-> "M"],
     [birth_date  |-> Date(1991, 11, 3), birth_time |-> Time(23, 5),
      target_date |-> Date(2024, 7, 1), gender |-> "F"],
     [birth_date  |-> Date(1990, 5, 15), birth_time |-> Time(14, 30),
      target_date |-> Date(2026, 2, 20), gender |-> "X"]}

IdleFrame ==
    [pc |-> "idle", args |-> None, saju |-> None, trinity_score |-> None]

InitThreads ==
    /\ th = [t \in Threads |-> IdleFrame]
    /\ log = {}

Overlapped(t) == \E u \in Threads : u # t /\ th[u].pc # "idle"

\* the call, line 225
Call(t, a) ==
    /\ th[t].pc = "idle"
    /\ th' = [th EXCEPT ![t] = [IdleFrame EXCEPT !.pc = "validate", !.args = a]]
    /\ UNCHANGED log

\* line 245, the ValueError leaving the call
ValidateRaises(t) ==
    LET a == th[t].args
        checked == ValidateInputs(a.birth_date, a.birth_time, a.target_date, a.gender)
    IN  /\ th[t].pc = "validate"
        /\ checked # "ok"
        /\ th' = [th EXCEPT ![t] = IdleFrame]
        /\ log' = log \cup {[args |-> a, overlapped |-> Overlapped(t),
                             out |-> [raised |-> TRUE, message |-> checked]]}

\* line 245, passing
ValidatePasses(t) ==
    LET a == th[t].args
    IN  /\ th[t].pc = "validate"
        /\ ValidateInputs(a.birth_date, a.birth_time, a.target_date, a.gender) = "ok"
        /\ th' = [th EXCEPT ![t].pc = "saju"]
        /\ UNCHANGED log

\* line 248 keeping the saju on the instance (self.saju), where the other
\* calls in progress read theirs
SajuStepShared(t) ==
    LET a == th[t].args
        s == CalculateSaju(a.birth_date, a.birth_time, a.gender)
    IN  /\ th[t].pc = "saju"
        /\ th' = [u \in Threads |->
                    IF u = t THEN [th[u] EXCEPT !.pc = "score", !.saju = s]
                    ELSE IF th[u].pc = "score" THEN [th[u] EXCEPT !.saju = s]
                    ELSE th[u]]
        /\ UNCHANGED log

\* line 248
SajuStep(t) ==
    LET a == th[t].args
    IN  /\ th[t].pc = "saju"
        /\ th' = [th EXCEPT ![t].pc = "score",
                            ![t].saju = CalculateSaju(a.birth_date, a.birth_time, a.gender)]
        /\ UNCHANGED log

\* lines 251-254
ScoreStep(t) ==
    /\ th[t].pc = "score"
    /\ th' = [th EXCEPT ![t].pc = "map",
                        ![t].trinity_score =
                            CalculateTrinityScore(th[t].saju, th[t].args.target_date.y)]
    /\ UNCHANGED log

\* lines 257-259, the return
MapStep(t) ==
    /\ th[t].pc = "map"
    /\ th' = [th EXCEPT ![t] = IdleFrame]
    /\ log' = log \cup {[args |-> th[t].args, overlapped |-> Overlapped(t),
                         out |-> [raised |-> FALSE,
                                  result |-> MapToCryptoTerms(th[t].trinity_score,
                                                              th[t].saju)]]}

(***************************************************************************)
(* SpecYongsin: _calculate_yongsin applied to any tally of at most         *)
(* MaxTally symbols.                                                       *)
(***************************************************************************)
MaxTally == 8

Tallies ==
    {e \in [{ElementOrder[i] : i \in 1..5} -> 0..MaxTally] : SumElements(e) <= MaxTally}

InitYongsin ==
    /\ fn_arg \in Tallies
    /\ fn_ret = None

ApplyYongsin ==
    /\ fn_ret = None
    /\ fn_arg # None
    /\ fn_ret' = CalculateYongsin(fn_arg)
    /\ UNCHANGED fn_arg

(***************************************************************************)
(* SpecDeep: one request of a 24-hour endpoint of api_server.py,           *)
(* get_deep_luck (lines 527-655) or get_deep_signal (lines 758-840).  A    *)
(* score is the engine's trading_luck_score, in hundredths.  body is the   *)
(* request body; a deep_signal body has no validator, no gender (the       *)
(* handler passes "M") and an optional target_date, today's date when      *)
(* absent.  Texts the handlers build from a template are records of the    *)
(* values they print.                                                      *)
(***************************************************************************)
\* datetime.strptime(v, "%H:%M")
StrptimeTimeOk(text) ==
    /\ text.colon
    /\ text.hourInt
    /\ text.hour \in 0..23
    /\ text.minute \in 0..59

\* the validators of DeepLuckRequest (lines 229-249): the field that fails
\* them, or "ok"
DeepLuckRequestCheck(b) ==
    IF ~StrptimeOk(b.birth_date) THEN "birth_date"
    ELSE IF ~StrptimeTimeOk(b.birth_time) THEN "birth_time"
    ELSE IF ~StrptimeOk(b.target_date) THEN "target_date"
    ELSE IF ~InList(b.gender, <<"M", "F">>) THEN "gender"
    ELSE "ok"

Today == Date(ExampleTargetYear, 2, 20)

\* the arguments of the engine call of hour h (lines 553-558, 767, 780-785)
DeepCallArgs(b, h) ==
    [birth_date  |-> b.birth_date,
     birth_time  |-> Time(h, 0),
     target_date |-> IF b.endpoint = "deep_signal" /\ b.target_date = None
                     THEN Today ELSE b.target_date,
     gender      |-> IF b.endpoint = "deep_signal" THEN "M" ELSE b.gender]

\* the entry of hour h (lines 559-566, 786-791)
HourlyEntry(b, h, res) ==
    IF b.endpoint = "deep_luck"
    THEN [hour |-> h, score |-> res.trading_luck_score,
          volatility |-> res.volatility_index,
          dominant_element |-> res.favorable_sectors,
          keyword |-> res.keyword, raw |-> res]
    ELSE [hour |-> h, score |-> res.trading_luck_score,
          volatility |-> res.volatility_index,
          dominant_element |-> res.favorable_sectors]

SECTOR_TO_ELEMENT ==
    [MEME |-> "Fire", AI |-> "Fire", VOLATILE |-> "Fire",
     INFRASTRUCTURE |-> "Earth", LAYER1 |-> "Earth", BTC |-> "Earth",
     DEFI |-> "Water", EXCHANGE |-> "Water", LIQUIDITY |-> "Water",
     RWA |-> "Metal", STABLECOIN |-> "Metal",
     NEW_LISTING |-> "Wood", GAMEFI |-> "Wood", NFT |-> "Wood"]

\* _get_reason_text (lines 498-509): which of its texts
get_reason_text(element, score) ==
    IF score < 40 THEN "Clash detected"
    ELSE IF element \in {"Wood", "Fire", "Earth", "Metal", "Water"} THEN element
    ELSE "Neutral market conditions"

\* _score_to_signal (lines 517-522)
score_to_signal(score) ==
    IF score >= 80 THEN "STRONG_BUY"
    ELSE IF score >= 65 THEN "BUY"
    ELSE IF score >= 50 THEN "NEUTRAL"
    ELSE IF score >= 40 THEN "CAUTION"
    ELSE "AVOID"

\* max(scores) and min(scores)
SeqMax(xs) == CHOOSE x \in {xs[i] : i \in 1..Len(xs)} : \A i \in 1..Len(xs) : xs[i] <= x

SeqMin(xs) == CHOOSE x \in {xs[i] : i \in 1..Len(xs)} : \A i \in 1..Len(xs) : xs[i] >= x

\* sorted(xs, reverse=True)[k]
SortedDescAt(xs, k) ==
    CHOOSE x \in {xs[i] : i \in 1..Len(xs)} :
        /\ Cardinality({i \in 1..Len(xs) : xs[i] > x}) <= k
        /\ Cardinality({i \in 1..Len(xs) : xs[i] >= x}) > k

\* max(hourly_raw, key=score) and min(hourly_raw, key=score): the first entry
\* with the score
FirstWithScore(raw, score) ==
    raw[CHOOSE i \in 1..Len(raw) :
            raw[i].score = score /\ \A j \in 1..(i-1) : raw[j].score # score]

\* the reported maximum taken from the last hour
DeepResponseMaxOfLast(b, raw) ==
    LET scores       == [i \in 1..Len(raw) |-> raw[i].score]
        max_score    == raw[Len(raw)].score
        min_score    == SeqMin(scores)
    IN  [hourly_analysis |-> [max_score |-> max_score, min_score |-> min_score,
                              spread |-> max_score - min_score],
         hourly_forecast |-> [i \in 1..Len(raw) |-> [score |-> raw[i].score]]]

\* lines 568-648 and 793-835
DeepResponse(b, raw) ==
    LET scores       == [i \in 1..Len(raw) |-> raw[i].score]
        max_score    == SeqMax(scores)
        min_score    == SeqMin(scores)
        spread       == max_score - min_score
        threshold_75 == SortedDescAt(scores, Max2(0, (Len(scores) \div 4) - 1))
        element_en(x) ==
            LET sector == IF x.dominant_element # <<>> THEN x.dominant_element[1] ELSE "BTC"
            IN  IF sector \in DOMAIN SECTOR_TO_ELEMENT
                THEN SECTOR_TO_ELEMENT[sector] ELSE "Earth"
        hourly_forecast ==
            [i \in 1..Len(raw) |->
                [time      |-> Time(raw[i].hour, 0),
                 score     |-> raw[i].score,
                 element   |-> element_en(raw[i]),
                 signal    |-> score_to_signal(raw[i].score),
                 reason    |-> get_reason_text(element_en(raw[i]), raw[i].score),
                 is_golden |-> raw[i].volatility = "LOW" /\ raw[i].score >= threshold_75]]
        avoid_hours  == {i \in 1..Len(raw) : hourly_forecast[i].signal = "AVOID"}
        best_h       == FirstWithScore(raw, max_score)
        worst        == FirstWithScore(raw, min_score)
    IN  [meta            |-> [target_date |-> DeepCallArgs(b, 0).target_date,
                              algorithm   |-> "Gridcore_Saju_Hourly_V1"],
         strategy        |->
            IF max_score < 60
            THEN [action |-> "DO_NOT_TRADE", best_window |-> "None",
                  max_score |-> max_score, pro_tip |-> "No golden window today"]
            ELSE [action |-> [wait_until |-> best_h.hour],
                  best_window |-> [from |-> best_h.hour, to |-> best_h.hour + 2],
                  max_score |-> max_score,
                  pro_tip |-> [golden_cross_at |-> best_h.hour]],
         hourly_analysis |->
            [max_score |-> max_score,
             min_score |-> min_score,
             spread    |-> spread,
             volatility_warning |->
                IF avoid_hours # {}
                THEN [from |-> worst.hour, to |-> worst.hour + 2, score |-> worst.score]
                ELSE None],
         hourly_forecast |-> hourly_forecast]

DeepBodies ==
    [endpoint    : {"deep_luck"},
     birth_date  : BirthDates({ExampleBirthYear}),
     birth_time  : {Time(12, 0)},
     target_date : {Date(ty, 2, 20) : ty \in NearTargetYears},
     gender      : {"M"}]
    \cup
    [endpoint    : {"deep_luck"},
     birth_date  : {Date(1990, 5, 15), Date(1968, 3, 3), Date(1990, 2, 29)},
     birth_time  : {Time(12, 0), Time(25, 99)},
     target_date : {Date(2026, 2, 20), Date(1988, 1, 1), Date(2023, 13, 40)},
     gender      : {"M", "F", "X"}]
    \cup
    [endpoint    : {"deep_signal"},
     birth_date  : BirthDates({ExampleBirthYear}) \cup {Date(1990, 2, 29)},
     target_date : {None, Date(2024, 7, 1), Date(2023, 13, 40)}]

InitDeep ==
    /\ body \in DeepBodies
    /\ deep_pc = "request"
    /\ hourly_raw = <<>>
    /\ response = None

\* the body fails the validators: the handler is not entered
BodyRejected ==
    /\ deep_pc = "request"
    /\ body.endpoint = "deep_luck"
    /\ DeepLuckRequestCheck(body) # "ok"
    /\ deep_pc' = "done"
    /\ response' = [status |-> 422, detail |-> DeepLuckRequestCheck(body)]
    /\ UNCHANGED <<body, hourly_raw>>

\* the handler is entered
HandlerEntered ==
    /\ deep_pc = "request"
    /\ body.endpoint = "deep_luck" => DeepLuckRequestCheck(body) = "ok"
    /\ deep_pc' = "loop"
    /\ UNCHANGED <<body, hourly_raw, response>>

\* one turn of the loop over range(24): the engine call of the hour, and
\* either its entry appended or its exception answered (lines 650-655,
\* 836-840)
HourStep ==
    /\ deep_pc = "loop"
    /\ Len(hourly_raw) < 24
    /\ \E h \in {Len(hourly_raw)} :
       \E a \in {DeepCallArgs(body, h)} :
       \E out \in {CalculateDailyLuck(a.birth_date, a.birth_time, a.target_date, a.gender)} :
          IF out.raised
          THEN /\ deep_pc' = "done"
               /\ response' = [status |-> IF out.error = "ValueError" THEN 400 ELSE 500,
                               detail |-> out.message]
               /\ UNCHANGED hourly_raw
          ELSE /\ hourly_raw' = Append(hourly_raw, HourlyEntry(body, h, out.result))
               /\ UNCHANGED <<deep_pc, response>>
    /\ UNCHANGED body

\* the loop is over: the response
Respond ==
    /\ deep_pc = "loop"
    /\ Len(hourly_raw) = 24
    /\ deep_pc' = "done"
    /\ response' = [status |-> 200, content |-> DeepResponse(body, hourly_raw)]
    /\ UNCHANGED <<body, hourly_raw>>

(***************************************************************************)
(* SpecSeller: the seller process of acp_seller.py handling NumJobs jobs.  *)
(*                                                                         *)
(* Threads.  For each job the SDK calls on_new_task once, which starts the *)
(* job thread running _handle_new_task (lines 144-155); the job thread     *)
(* starts the signing thread running _do_sign and joins it for at most 30  *)
(* seconds (lines 299-301).  on_evaluate runs on an SDK callback thread,   *)
(* once for a job, and on the polling thread (lines 455-475).  A frame of  *)
(* on_evaluate is f in 0..NumJobs: frame 0 is the polling thread's, frame  *)
(* j the SDK callback's for job j.                                         *)
(*                                                                         *)
(* The SDK and the chain are the environment: a call to them returns or    *)
(* raises; a job is in phase REQUEST until its acceptance is signed        *)
(* (NEGOTIATION), awaits the payment once the payment request is created   *)
(* (TRANSACTION), is paid by the buyer only then (EVALUATION, 3), and is   *)
(* COMPLETED (4) once evaluate(True) has returned, REJECTED (5) once a     *)
(* rejection has been signed; the SDK calls on_evaluate only for a job in  *)
(* phase EVALUATION.  The join's timeout expires only while the signing    *)
(* thread waits for the lock another thread holds or is inside a call to   *)
(* the chain.                                                              *)
(*                                                                         *)
(* A service name is a string with its lower-case form and the supported   *)
(* names its lower-case form contains.  A job's requirement is a dict, the *)
(* JSON text of a dict ("json"), or another text ("text"), which holds a   *)
(* blocked keyword or not and is longer than 1024 characters or not; a     *)
(* dict is its keys, its 'service' value, and whether its serialization    *)
(* (json.dumps) holds a blocked keyword and is longer than 1024            *)
(* characters.  The handlers' result is its service and whether it holds   *)
(* an "error" key.                                                         *)
(* revenue_val is in cents.                                                *)
(***************************************************************************)
NumJobs == 2

Jobs == 1..NumJobs

PollFrame == 0

Frames == {PollFrame} \cup Jobs

SUPPORTED_SERVICES ==
    {"sectorfeed", "sectorFeed", "dailysignal", "dailySignal", "deepsignal", "deepSignal",
     "agentmatch", "agentMatch", "deepluck", "deepLuck", "dailyluck", "dailyLuck"}

\* str.lower() of the service names of the model
Lower(name) ==
    CASE name \in {"sectorFeed", "sectorfeed", "SECTORFEED"} -> "sectorfeed"
      [] name \in {"dailySignal", "dailysignal"} -> "dailysignal"
      [] name \in {"deepSignal", "deepsignal"} -> "deepsignal"
      [] name \in {"agentMatch", "agentmatch"} -> "agentmatch"
      [] name \in {"deepLuck", "deepluck", "DeepLuck"} -> "deepluck"
      [] name \in {"dailyLuck", "dailyluck", "DAILYLUCK"} -> "dailyluck"
      [] name = "Tarot" -> "tarot"
      [] name = "sectorFeedPro" -> "sectorfeedpro"
      [] OTHER -> name

\* token in text, for the lower-case names of the model
Contains(text, token) ==
    \/ text = token
    \/ text = "sectorfeedpro" /\ token = "sectorfeed"

EmptyRequirement == [keys |-> {}, service |-> "", blocked |-> FALSE, long |-> FALSE]

\* _safe_parse_requirement (lines 127-141): a dict, or the dict a JSON text
\* spells; {} for any other text
safe_parse_requirement(raw) ==
    IF raw = None THEN EmptyRequirement
    ELSE IF raw.kind = "dict" THEN raw.content
    ELSE IF raw.kind = "json" THEN raw.content
    ELSE EmptyRequirement

\* lines 165-169
ServiceName(job) ==
    IF job.name # "" THEN job.name ELSE safe_parse_requirement(job.requirement).service

\* memo_to_sign is None
NoMemo == "N/A"

\* lines 180 and 195-202: the job is skipped
Skipped(job) ==
    \/ job.foreign
    \/ job.memo # NoMemo /\ job.memo # "NEGOTIATION"

\* lines 216-237: the reason of the rejection, or "ok"
RejectReason(job) ==
    LET service_name == ServiceName(job)
        requirement  == safe_parse_requirement(job.requirement)
    IN  IF service_name # "" /\ Lower(service_name) \notin {Lower(x) : x \in SUPPORTED_SERVICES}
        THEN "unsupported"
        ELSE IF requirement.blocked THEN "blocked"
        ELSE IF requirement.long THEN "too large"
        ELSE "ok"

\* the routing of lines 241-263 and 361-383: the service and its price, or None
Route(service_name, requirement) ==
    LET service_lower == Lower(service_name)
    IN  IF Contains(service_lower, "sectorfeed") \/ service_name = "sectorFeed"
        THEN [service_key |-> "sectorFeed", revenue_val |-> 1]
        ELSE IF \/ Contains(service_lower, "agentmatch") \/ service_name = "agentMatch"
                \/ "agents" \in requirement.keys
        THEN [service_key |-> "agentMatch", revenue_val |-> 200]
        ELSE IF \/ Contains(service_lower, "deepsignal") \/ service_name = "deepSignal"
                \/ "agent_birth_date" \in requirement.keys
        THEN [service_key |-> "deepSignal", revenue_val |-> 50]
        ELSE IF Contains(service_lower, "dailysignal") \/ service_name = "dailySignal"
        THEN [service_key |-> "dailySignal", revenue_val |-> 1]
        ELSE IF Contains(service_lower, "deepluck") \/ "birth_date" \in requirement.keys
        THEN [service_key |-> "deepLuck", revenue_val |-> 50]
        ELSE IF Contains(service_lower, "dailyluck") \/ "target_date" \in requirement.keys
        THEN [service_key |-> "dailyLuck", revenue_val |-> 1]
        ELSE None

Requirement(keys, blocked, long) ==
    [kind |-> "json",
     content |-> [keys |-> keys, service |-> "", blocked |-> blocked, long |-> long]]

\* the jobs of the model: name, requirement, the memo's next_phase (NoMemo: no
\* memo_to_sign), and whether the provider is another wallet
JobKinds ==
    {[name |-> "", requirement |-> Requirement({"birth_date", "target_date"}, FALSE, FALSE),
      memo |-> "NEGOTIATION", foreign |-> FALSE],
     [name |-> "dailyLuck", requirement |-> [kind |-> "text", blocked |-> TRUE, long |-> FALSE],
      memo |-> NoMemo, foreign |-> FALSE],
     [name |-> "Tarot", requirement |-> Requirement({"target_date"}, FALSE, FALSE),
      memo |-> "NEGOTIATION", foreign |-> FALSE],
     [name |-> "DAILYLUCK", requirement |-> Requirement({"target_date"}, TRUE, FALSE),
      memo |-> "NEGOTIATION", foreign |-> FALSE],
     [name |-> "deepSignal", requirement |-> Requirement({"agent_birth_date"}, FALSE, TRUE),
      memo |-> NoMemo, foreign |-> FALSE],
     [name |-> "", requirement |-> [kind |-> "text", blocked |-> FALSE, long |-> TRUE],
      memo |-> "NEGOTIATION", foreign |-> FALSE],
     [name |-> "dailyLuck", requirement |-> Requirement({"target_date"}, FALSE, FALSE),
      memo |-> "EVALUATION", foreign |-> FALSE],
     [name |-> "sectorFeed", requirement |-> Requirement({}, FALSE, FALSE),
      memo |-> "NEGOTIATION", foreign |-> TRUE]}

\* the calls the model counts: on the chain, of the handlers, on job_results,
\* of telegram_bot.save_sale
CallNames ==
    {"sign(False)", "job.reject", "sign(True)", "job.accept", "create_payable_requirement",
     "_call_handler", "job_results[job_id] =", "save_sale",
     "job.deliver", "evaluate(True)", "evaluate(False)"}

InitSeller ==
    /\ jobs \in [Jobs -> JobKinds]
    /\ phase = [j \in Jobs |-> "REQUEST"]
    /\ hpc = [j \in Jobs |-> "new"]
    /\ hres = [j \in Jobs |-> None]
    /\ spc = [j \in Jobs |-> "none"]
    /\ TX_LOCK = 0
    /\ job_results = <<>>
    /\ epc = [f \in Frames |-> "idle"]
    /\ ejob = [f \in Frames |-> f]
    /\ estored = [f \in Frames |-> None]
    /\ poll_pc = "sleep"
    /\ poll_keys = <<>>
    /\ processed = {}
    /\ calls = [j \in Jobs |-> [c \in CallNames |-> 0]]

\* job_results as a dict in insertion order: a sequence of [job_id, stored]
Keys(d) == [i \in 1..Len(d) |-> d[i].job_id]

HasKey(d, k) == \E i \in 1..Len(d) : d[i].job_id = k

DictGet(d, k) ==
    IF HasKey(d, k) THEN d[CHOOSE i \in 1..Len(d) : d[i].job_id = k].stored ELSE None

DictSet(d, k, v) ==
    IF HasKey(d, k)
    THEN [i \in 1..Len(d) |-> IF d[i].job_id = k THEN [job_id |-> k, stored |-> v] ELSE d[i]]
    ELSE Append(d, [job_id |-> k, stored |-> v])

DictPop(d, k) == SelectSeq(d, LAMBDA e : e.job_id # k)

Did(j, call) == calls' = [calls EXCEPT ![j][call] = @ + 1]

pollVars == <<poll_pc, poll_keys, processed>>

evalVars == <<epc, ejob, estored>>

\* on_new_task (lines 144-155): the SDK's callback starts the job thread
on_new_task(j) ==
    /\ hpc[j] = "new"
    /\ hpc' = [hpc EXCEPT ![j] = "start"]
    /\ UNCHANGED <<jobs, phase, hres, spc, TX_LOCK, job_results, calls>>
    /\ UNCHANGED <<evalVars, pollVars>>

\* _handle_new_task, lines 163-202: the job is not ours or its memo is not
\* the negotiation's
HandleSkip(j) ==
    /\ hpc[j] = "start"
    /\ Skipped(jobs[j])
    /\ hpc' = [hpc EXCEPT ![j] = "done"]
    /\ UNCHANGED <<jobs, phase, hres, spc, TX_LOCK, job_results, calls>>
    /\ UNCHANGED <<evalVars, pollVars>>

\* lines 216-237: a check fails; with a memo the thread enters
\* memo_to_sign.sign(False, ...), holding no lock
HandleReject(j) ==
    /\ hpc[j] = "start"
    /\ ~Skipped(jobs[j])
    /\ RejectReason(jobs[j]) # "ok"
    /\ IF jobs[j].memo # NoMemo
       THEN hpc' = [hpc EXCEPT ![j] = "rejecting"] /\ Did(j, "sign(False)")
       ELSE hpc' = [hpc EXCEPT ![j] = "done"] /\ UNCHANGED calls
    /\ UNCHANGED <<jobs, phase, hres, spc, TX_LOCK, job_results>>
    /\ UNCHANGED <<evalVars, pollVars>>

\* lines 260-263: no route; the thread enters job.reject, holding no lock
HandleUnknown(j) ==
    /\ hpc[j] = "start"
    /\ ~Skipped(jobs[j])
    /\ RejectReason(jobs[j]) = "ok"
    /\ Route(ServiceName(jobs[j]), safe_parse_requirement(jobs[j].requirement)) = None
    /\ hpc' = [hpc EXCEPT ![j] = "rejecting"]
    /\ Did(j, "job.reject")
    /\ UNCHANGED <<jobs, phase, hres, spc, TX_LOCK, job_results>>
    /\ UNCHANGED <<evalVars, pollVars>>

\* the rejection's call returns (the job is REJECTED on chain) or raises (the
\* except of line 336); the thread ends
RejectCallEnds(j) ==
    /\ hpc[j] = "rejecting"
    /\ hpc' = [hpc EXCEPT ![j] = "done"]
    /\ \E raised \in BOOLEAN :
          phase' = [phase EXCEPT ![j] = IF raised THEN @ ELSE "REJECTED"]
    /\ UNCHANGED <<jobs, hres, spc, TX_LOCK, job_results, calls>>
    /\ UNCHANGED <<evalVars, pollVars>>

\* lines 299-300: the job is routed; the signing thread starts and the job
\* thread joins it
HandleStartSign(j) ==
    /\ hpc[j] = "start"
    /\ ~Skipped(jobs[j])
    /\ RejectReason(jobs[j]) = "ok"
    /\ Route(ServiceName(jobs[j]), safe_parse_requirement(jobs[j].requirement)) # None
    /\ hpc' = [hpc EXCEPT ![j] = "join"]
    /\ spc' = [spc EXCEPT ![j] = "wait_lock"]
    /\ UNCHANGED <<jobs, phase, hres, TX_LOCK, job_results, calls>>
    /\ UNCHANGED <<evalVars, pollVars>>

\* _do_sign, lines 269-276: the lock is taken and the acceptance's call
\* (memo_to_sign.sign(True, ...) or job.accept()) is entered
SignAcquire(j) ==
    /\ spc[j] = "wait_lock"
    /\ TX_LOCK = 0
    /\ TX_LOCK' = j
    /\ spc' = [spc EXCEPT ![j] = "signing"]
    /\ Did(j, IF jobs[j].memo # NoMemo THEN "sign(True)" ELSE "job.accept")
    /\ UNCHANGED <<jobs, phase, hpc, hres, job_results>>
    /\ UNCHANGED <<evalVars, pollVars>>

\* lines 277-279: the acceptance's call raised; _do_sign returns and the
\* lock is released
SignRaises(j) ==
    /\ spc[j] = "signing"
    /\ spc' = [spc EXCEPT ![j] = "done"]
    /\ TX_LOCK' = 0
    /\ UNCHANGED <<jobs, phase, hpc, hres, job_results, calls>>
    /\ UNCHANGED <<evalVars, pollVars>>

\* lines 277 and 282-293: the acceptance is signed; the call of
\* job.create_payable_requirement is entered, the lock still held
SignReturns(j) ==
    /\ spc[j] = "signing"
    /\ spc' = [spc EXCEPT ![j] = "paying"]
    /\ phase' = [phase EXCEPT ![j] = "NEGOTIATION"]
    /\ Did(j, "create_payable_requirement")
    /\ UNCHANGED <<jobs, hpc, hres, TX_LOCK, job_results>>
    /\ UNCHANGED <<evalVars, pollVars>>

\* lines 294-297: the payment request returns (the job awaits the payment,
\* phase TRANSACTION) or raises; the lock is released
PayableEnds(j) ==
    /\ spc[j] = "paying"
    /\ spc' = [spc EXCEPT ![j] = "done"]
    /\ TX_LOCK' = 0
    /\ \E raised \in BOOLEAN :
          phase' = [phase EXCEPT ![j] = IF raised THEN @ ELSE "TRANSACTION"]
    /\ UNCHANGED <<jobs, hpc, hres, job_results, calls>>
    /\ UNCHANGED <<evalVars, pollVars>>

\* line 301, the timeout: the signing thread still waits for a lock another
\* thread holds, or is inside a call to the chain
JoinTimeout(j) ==
    \/ spc[j] = "wait_lock" /\ TX_LOCK # 0
    \/ spc[j] \in {"signing", "paying"}

\* lines 301-308: the join returns, the signing thread over or the timeout
\* expired, and the handler is called
Compute(j) ==
    /\ hpc[j] = "join"
    /\ spc[j] = "done" \/ JoinTimeout(j)
    /\ \E error \in BOOLEAN :
          hres' = [hres EXCEPT ![j] =
                     [service_key |-> Route(ServiceName(jobs[j]),
                                            safe_parse_requirement(jobs[j].requirement)).service_key,
                      error |-> error]]
    /\ hpc' = [hpc EXCEPT ![j] = "store"]
    /\ Did(j, "_call_handler")
    /\ UNCHANGED <<jobs, phase, spc, TX_LOCK, job_results>>
    /\ UNCHANGED <<evalVars, pollVars>>

BOT_AVAILABLE == TRUE

\* lines 312-334: the result is stored; without an error the sale is
\* announced and recorded
Store(j) ==
    /\ hpc[j] = "store"
    /\ job_results' = DictSet(job_results, j,
                              [result |-> hres[j],
                               service_key |-> hres[j].service_key,
                               revenue_val |-> Route(ServiceName(jobs[j]),
                                   safe_parse_requirement(jobs[j].requirement)).revenue_val])
    /\ calls' = [calls EXCEPT ![j]["job_results[job_id] ="] = @ + 1,
                              ![j]["save_sale"] =
                                  IF ~hres[j].error /\ BOT_AVAILABLE THEN @ + 1 ELSE @]
    /\ hpc' = [hpc EXCEPT ![j] = "done"]
    /\ UNCHANGED <<jobs, phase, hres, spc, TX_LOCK>>
    /\ UNCHANGED <<evalVars, pollVars>>

\* the buyer pays the payment request: the job is to be delivered
BuyerPays(j) ==
    /\ phase[j] = "TRANSACTION"
    /\ phase' = [phase EXCEPT ![j] = "EVALUATION"]
    /\ UNCHANGED <<jobs, hpc, hres, spc, TX_LOCK, job_results, calls>>
    /\ UNCHANGED <<evalVars, pollVars>>

\* a frame of on_evaluate moves on; at its end the SDK's thread is over, and
\* the polling thread marks the job (line 469) and goes on with its keys
Advance(f, next) ==
    IF next # "end"
    THEN epc' = [epc EXCEPT ![f] = next] /\ UNCHANGED <<ejob, pollVars>>
    ELSE IF f = PollFrame
    THEN /\ epc' = [epc EXCEPT ![f] = "idle"]
         /\ ejob' = [ejob EXCEPT ![f] = PollFrame]
         /\ processed' = processed \cup {ejob[f]}
         /\ poll_pc' = "scan"
         /\ poll_keys' = Tail(poll_keys)
    ELSE epc' = [epc EXCEPT ![f] = "over"] /\ UNCHANGED <<ejob, pollVars>>

\* the SDK calls on_evaluate (registered at line 451) for a paid job, once
SdkEvaluate(j) ==
    /\ phase[j] = "EVALUATION"
    /\ epc[j] = "idle"
    /\ epc' = [epc EXCEPT ![j] = "get"]
    /\ UNCHANGED <<jobs, phase, hpc, hres, spc, TX_LOCK, job_results, calls>>
    /\ UNCHANGED <<ejob, estored, pollVars>>

\* _polling_evaluate, lines 459-461: the thread wakes and lists the keys of
\* job_results (a turn over no keys changes nothing)
PollWake ==
    /\ poll_pc = "sleep"
    /\ Len(job_results) > 0
    /\ poll_keys' = Keys(job_results)
    /\ poll_pc' = "scan"
    /\ UNCHANGED <<jobs, phase, hpc, hres, spc, TX_LOCK, job_results, calls>>
    /\ UNCHANGED <<evalVars, processed>>

\* lines 461-473: one key of the list; get_job_by_onchain_id may raise
PollKey ==
    /\ poll_pc = "scan"
    /\ IF poll_keys = <<>>
       THEN poll_pc' = "sleep" /\ UNCHANGED <<poll_keys, processed, evalVars>>
       ELSE LET jid == Head(poll_keys)
            IN  IF jid \in processed
                THEN poll_keys' = Tail(poll_keys) /\ UNCHANGED <<poll_pc, processed, evalVars>>
                ELSE \E raised \in BOOLEAN :
                       IF raised \/ phase[jid] \notin {"EVALUATION", "COMPLETED", "REJECTED"}
                       THEN poll_keys' = Tail(poll_keys)
                            /\ UNCHANGED <<poll_pc, processed, evalVars>>
                       ELSE IF phase[jid] = "EVALUATION"
                       THEN /\ poll_pc' = "in_eval"
                            /\ ejob' = [ejob EXCEPT ![PollFrame] = jid]
                            /\ epc' = [epc EXCEPT ![PollFrame] = "get"]
                            /\ UNCHANGED <<poll_keys, processed, estored>>
                       ELSE /\ processed' = processed \cup {jid}
                            /\ poll_keys' = Tail(poll_keys)
                            /\ UNCHANGED <<poll_pc, evalVars>>
    /\ UNCHANGED <<jobs, phase, hpc, hres, spc, TX_LOCK, job_results, calls>>

\* on_evaluate, lines 352-383: the stored result is read; without one the job
\* is routed again, by job.name, and an unknown service is evaluated False
EvalGet(f) ==
    /\ epc[f] = "get"
    /\ LET j      == ejob[f]
           stored == DictGet(job_results, j)
       IN  IF stored # None
           THEN estored' = [estored EXCEPT ![f] = stored]
                /\ Advance(f, "deliver") /\ UNCHANGED calls
           ELSE IF Route(jobs[j].name, safe_parse_requirement(jobs[j].requirement)) = None
           THEN Did(j, "evaluate(False)") /\ Advance(f, "end") /\ UNCHANGED estored
           ELSE Advance(f, "recompute") /\ UNCHANGED <<estored, calls>>
    /\ UNCHANGED <<jobs, phase, hpc, hres, spc, TX_LOCK, job_results>>

\* lines 384-385: the handler is called again
EvalRecompute(f) ==
    /\ epc[f] = "recompute"
    /\ LET j == ejob[f]
           r == Route(jobs[j].name, safe_parse_requirement(jobs[j].requirement))
       IN  /\ \E error \in BOOLEAN :
                 estored' = [estored EXCEPT ![f] =
                               [result |-> [service_key |-> r.service_key, error |-> error],
                                service_key |-> r.service_key,
                                revenue_val |-> r.revenue_val]]
           /\ Did(j, "_call_handler")
    /\ Advance(f, "deliver")
    /\ UNCHANGED <<jobs, phase, hpc, hres, spc, TX_LOCK, job_results>>

\* line 394: job.deliver is called; it returns, or raises into line 418
EvalDeliver(f) ==
    /\ epc[f] = "deliver"
    /\ Did(ejob[f], "job.deliver")
    /\ \E raised \in BOOLEAN :
          IF raised
          THEN Advance(f, "end") /\ estored' = [estored EXCEPT ![f] = None]
          ELSE Advance(f, "evaluate") /\ UNCHANGED estored
    /\ UNCHANGED <<jobs, phase, hpc, hres, spc, TX_LOCK, job_results>>

\* line 398: job.evaluate(True, ...) is called; when it returns the job is
\* COMPLETED
EvalEvaluate(f) ==
    /\ epc[f] = "evaluate"
    /\ Did(ejob[f], "evaluate(True)")
    /\ \E raised \in BOOLEAN :
          IF raised
          THEN Advance(f, "end") /\ UNCHANGED phase
          ELSE Advance(f, "pop") /\ phase' = [phase EXCEPT ![ejob[f]] = "COMPLETED"]
    /\ estored' = [estored EXCEPT ![f] = None]
    /\ UNCHANGED <<jobs, hpc, hres, spc, TX_LOCK, job_results>>

\* line 416: the stored result is dropped and on_evaluate returns
EvalPop(f) ==
    /\ epc[f] = "pop"
    /\ job_results' = DictPop(job_results, ejob[f])
    /\ Advance(f, "end")
    /\ UNCHANGED <<jobs, phase, hpc, hres, spc, TX_LOCK, estored, calls>>

(***************************************************************************)
(* SpecKeyword: _determine_keyword applied to two scores of the range the  *)
(* clamp of line 420 leaves, 10..95.                                       *)
(***************************************************************************)
ScoreMin == 10

ScoreMax == 95

InitKeyword ==
    /\ fn_arg \in [low : ScoreMin..ScoreMax, high : ScoreMin..ScoreMax]
    /\ fn_ret = None

ApplyKeyword ==
    /\ fn_ret = None
    /\ fn_arg # None
    /\ fn_ret' = [low  |-> DetermineKeyword(fn_arg.low),
                  high |-> DetermineKeyword(fn_arg.high)]
    /\ UNCHANGED fn_arg

(***************************************************************************)
(* SpecSales: NumSavers threads each call telegram_bot.save_sale once      *)
(* (the job threads of the seller, acp_seller.py line 332) while a thread  *)
(* of the bot calls load_sales_log.  sales_log.json is readable, with its  *)
(* content, or not (missing, or not JSON).  Revenues are in cents; a sale  *)
(* is its job_id and revenue.                                              *)
(***************************************************************************)
NumSavers == 2

Savers == 1..NumSavers

Readers == {0}

SalesLockFree == -1

EmptySalesLog == [total_sales |-> 0, total_revenue_usdc |-> 0, sales |-> <<>>]

Unreadable == [readable |-> FALSE, content |-> EmptySalesLog]

\* load_sales_log_unsafe (lines 57-65) and the body of load_sales_log
load_sales_log_unsafe(file) == IF file.readable THEN file.content ELSE EmptySalesLog

\* the sale a thread records
SaleOf(t) == [job_id |-> t, revenue |-> IF t % 2 = 1 THEN 1 ELSE 50]

SalesFiles ==
    {Unreadable,
     [readable |-> TRUE, content |-> EmptySalesLog],
     [readable |-> TRUE,
      content |-> [total_sales |-> 1, total_revenue_usdc |-> 200,
                   sales |-> <<[job_id |-> 0, revenue |-> 200]>>]],
     [readable |-> TRUE,
      content |-> [total_sales |-> 3, total_revenue_usdc |-> 200,
                   sales |-> <<[job_id |-> 0, revenue |-> 200]>>]]}

InitSales ==
    /\ sales_file \in SalesFiles
    /\ sales_lock = SalesLockFree
    /\ sale_pc = [t \in Savers \cup Readers |-> "idle"]
    /\ sale_log = [t \in Savers \cup Readers |-> None]
    /\ sale_hist = [init |-> load_sales_log_unsafe(sales_file), saved |-> {}, failed |-> {}]

\* a save_sale that does not take the lock
SaveAcquireNoLock(t) ==
    /\ sale_pc[t] = "idle"
    /\ sales_lock' = t
    /\ sale_pc' = [sale_pc EXCEPT ![t] = "load"]
    /\ UNCHANGED <<sales_file, sale_log, sale_hist>>

\* save_sale, line 39: with _sales_lock
SaveAcquire(t) ==
    /\ sale_pc[t] = "idle"
    /\ sales_lock = SalesLockFree
    /\ sales_lock' = t
    /\ sale_pc' = [sale_pc EXCEPT ![t] = "load"]
    /\ UNCHANGED <<sales_file, sale_log, sale_hist>>

\* lines 41-50: the log is read, without taking the lock again, and the sale
\* is added to the copy read
SaveLoad(t) ==
    /\ sale_pc[t] = "load"
    /\ LET read == load_sales_log_unsafe(sales_file)
       IN  sale_log' = [sale_log EXCEPT ![t] =
               [total_sales        |-> read.total_sales + 1,
                total_revenue_usdc |-> read.total_revenue_usdc + SaleOf(t).revenue,
                sales              |-> Append(read.sales, SaleOf(t))]]
    /\ sale_pc' = [sale_pc EXCEPT ![t] = "write"]
    /\ UNCHANGED <<sales_file, sales_lock, sale_hist>>

\* lines 51-54: the file is written; or open() or json.dump raises, the file
\* as it was or truncated, and the error is printed; the lock is released
SaveWrite(t) ==
    /\ sale_pc[t] = "write"
    /\ \/ /\ sales_file' = [readable |-> TRUE, content |-> sale_log[t]]
          /\ sale_hist' = [sale_hist EXCEPT !.saved = @ \cup {t}]
       \/ /\ sales_file' \in {sales_file, Unreadable}
          /\ sale_hist' = [sale_hist EXCEPT !.failed = @ \cup {t}]
    /\ sales_lock' = SalesLockFree
    /\ sale_log' = [sale_log EXCEPT ![t] = None]
    /\ sale_pc' = [sale_pc EXCEPT ![t] = "done"]

\* load_sales_log, line 27: with _sales_lock
ReadAcquire(t) ==
    /\ sale_pc[t] = "idle"
    /\ sales_lock = SalesLockFree
    /\ sales_lock' = t
    /\ sale_pc' = [sale_pc EXCEPT ![t] = "read"]
    /\ UNCHANGED <<sales_file, sale_log, sale_hist>>

\* lines 28-34: the log is read and returned; the lock is released
ReadReturn(t) ==
    /\ sale_pc[t] = "read"
    /\ sale_log' = [sale_log EXCEPT ![t] = load_sales_log_unsafe(sales_file)]
    /\ sales_lock' = SalesLockFree
    /\ sale_pc' = [sale_pc EXCEPT ![t] = "done"]
    /\ UNCHANGED <<sales_file, sale_hist>>

(***************************************************************************)
(* SpecCache: calls of TrinityACPAgent.verify_accuracy on one agent, the   *)
(* clock (datetime.now(), in seconds since the agent was built) advancing  *)
(* between them and the backtest report (backtest_result.json, or the      *)
(* backtest engine's report without that file) changing.  A report is      *)
(* named by a letter.                                                      *)
(***************************************************************************)
CACHE_TTL_SECONDS == 3600

ClockSteps == {1799, 1800, 1801}

MaxClock == 7204

Reports == {"A", "B"}

\* _cache_timestamp is None
NoTimestamp == -1

\* no result was stored yet
NoReport == "none"

InitCache ==
    /\ now = 0
    /\ backtest_source \in Reports
    /\ backtest_cache = None
    /\ cache_timestamp = NoTimestamp
    /\ va_ret = [n |-> 0, force_refresh |-> FALSE, result |-> None]
    /\ va_hist = [stored |-> NoReport, at |-> 0]

Tick(d) ==
    /\ now + d <= MaxClock
    /\ now' = now + d
    /\ UNCHANGED <<backtest_source, backtest_cache, cache_timestamp, va_ret, va_hist>>

SourceChanges ==
    /\ backtest_source' \in Reports \ {backtest_source}
    /\ UNCHANGED <<now, backtest_cache, cache_timestamp, va_ret, va_hist>>

\* the check without force_refresh
CacheValidIgnoringForce(force_refresh) ==
    /\ backtest_cache # None
    /\ cache_timestamp # NoTimestamp
    /\ now - cache_timestamp < CACHE_TTL_SECONDS

\* lines 234-239
CacheValid(force_refresh) ==
    /\ backtest_cache # None
    /\ cache_timestamp # NoTimestamp
    /\ ~force_refresh
    /\ now - cache_timestamp < CACHE_TTL_SECONDS

\* verify_accuracy (lines 220-298)
verify_accuracy(force_refresh) ==
    IF CacheValid(force_refresh)
    THEN /\ va_ret' = [n |-> 1 - va_ret.n, force_refresh |-> force_refresh,
                       result |-> [data |-> backtest_cache.data, cached |-> TRUE,
                                   cache_age_seconds |-> now - cache_timestamp]]
         /\ UNCHANGED <<now, backtest_source, backtest_cache, cache_timestamp, va_hist>>
    ELSE LET result == [data |-> backtest_source, cached |-> FALSE]
         IN  /\ backtest_cache' = result
             /\ cache_timestamp' = now
             /\ va_ret' = [n |-> 1 - va_ret.n, force_refresh |-> force_refresh,
                           result |-> result]
             /\ va_hist' = [stored |-> result.data, at |-> now]
             /\ UNCHANGED <<now, backtest_source>>

(***************************************************************************)
(* SpecRoute: the routing of a job, as _handle_new_task does it (by the    *)
(* service name, job.name or else requirement['service']) and as           *)
(* on_evaluate does it again when no result is stored (by job.name).       *)
(***************************************************************************)
\* the services and their prices in cents, as run_seller announces them
SERVICE_PRICES ==
    [sectorFeed |-> 1, dailySignal |-> 1, deepSignal |-> 50, agentMatch |-> 200,
     dailyLuck |-> 1, deepLuck |-> 50]

JobNames ==
    {"", "sectorFeed", "SECTORFEED", "dailySignal", "deepSignal", "agentMatch",
     "deepLuck", "DeepLuck", "dailyLuck", "DAILYLUCK", "Tarot", "sectorFeedPro"}

RoutingKeys == {"agents", "agent_birth_date", "birth_date", "target_date"}

InitRoute ==
    /\ fn_arg \in [name : JobNames,
                   requirement : [kind : {"json"},
                                  content : [keys : SUBSET RoutingKeys,
                                             service : {"", "dailySignal"},
                                             blocked : {FALSE}, long : {FALSE}]]]
    /\ fn_ret = None

ApplyRoute ==
    /\ fn_ret = None
    /\ fn_arg # None
    /\ fn_ret' = [new_task |-> Route(ServiceName(fn_arg),
                                    safe_parse_requirement(fn_arg.requirement)),
                  evaluate |-> Route(fn_arg.name,
                                    safe_parse_requirement(fn_arg.requirement))]
    /\ UNCHANGED fn_arg

(***************************************************************************)
(* handlers.py: handle_daily_luck and handle_deep_luck as functions of the *)
(* requirement and of ENGINE_AVAILABLE.  A dict is a record of its keys; a *)
(* requirement is None, a dict, or a text that spells a JSON dict, a JSON  *)
(* value that is not a dict, or no JSON at all.  The returned JSON text is *)
(* [kind |-> "json", content |-> the dumped dict].                         *)
(***************************************************************************)
\* the text ""
EmptyText == [wellFormed |-> FALSE, y |-> 0, m |-> 0, d |-> 0, empty |-> TRUE]

IsEmptyText(text) == "empty" \in DOMAIN text

\* not value, of None or a text
Falsy(value) == value = None \/ IsEmptyText(value)

RequirementKeys == {"birth_date", "birth_time", "target_date", "gender"}

RequirementValues ==
    [birth_date  : {Date(1990, 5, 15), Date(1968, 3, 3), Date(1990, 2, 30), EmptyText},
     birth_time  : {Time(14, 30), Time(24, 0)},
     target_date : {Date(2026, 2, 18), Date(2026, 13, 1)},
     gender      : {"F", "X"}]

RequirementDicts ==
    {[k \in K |-> v[k]] : K \in SUBSET RequirementKeys, v \in RequirementValues}

HandlerRequirements ==
    {[kind |-> kind, content |-> content] :
        kind \in {"dict", "json"}, content \in RequirementDicts}
    \cup {[kind |-> "json list", content |-> <<>>],
          [kind |-> "text", content |-> <<>>],
          [kind |-> "none", content |-> <<>>]}

InitHandler ==
    /\ fn_arg \in [handler : {"handle_daily_luck", "handle_deep_luck"},
                   requirement : HandlerRequirements,
                   ENGINE_AVAILABLE : BOOLEAN]
    /\ fn_ret = None

\* lines 81-89: json.loads of a text, whatever value it spells; {} for a text
\* that is no JSON and for None
_parse_requirement(requirement) ==
    IF requirement.kind \in {"dict", "json"}
    THEN [isDict |-> TRUE, items |-> requirement.content]
    ELSE IF requirement.kind = "json list"
    THEN [isDict |-> FALSE, items |-> <<>>]
    ELSE [isDict |-> TRUE, items |-> <<>>]

\* dict.get(key, default)
Get(data, key, default) == IF key \in DOMAIN data THEN data[key] ELSE default

\* json.dumps of a dict
JsonDumps(payload) == [kind |-> "json", content |-> payload]

KEYWORD_TO_SENTIMENT ==
    [STRONG_BULLISH |-> "BULLISH", BULLISH |-> "BULLISH", NEUTRAL |-> "NEUTRAL",
     BEARISH |-> "BEARISH", STRONG_BEARISH |-> "BEARISH"]

KEYWORD_TO_ACTION ==
    [STRONG_BULLISH |-> "BUY", BULLISH |-> "BUY", NEUTRAL |-> "HOLD",
     BEARISH |-> "SELL", STRONG_BEARISH |-> "SELL"]

KEYWORD_TO_STRATEGY ==
    [STRONG_BULLISH |-> "MOMENTUM", BULLISH |-> "DIPS", NEUTRAL |-> "WAIT",
     BEARISH |-> "DEFENSIVE", STRONG_BEARISH |-> "DEFENSIVE"]

VOLATILITY_MAP == [LOW |-> "LOW", HIGH |-> "HIGH"]

\* lines 63-69, the score in hundredths
_score_to_risk(luck_score) ==
    IF luck_score >= 65 THEN "LOW_RISK"
    ELSE IF luck_score >= 40 THEN "MED_RISK"
    ELSE "HIGH_RISK"

(***************************************************************************)
(* _extract_metrics (lines 133-152).  An item of the engine's breakdown is *)
(* the text label + ": " + number + suffix; the engine (lines 423-428)     *)
(* writes the Korean labels "daeun", "seun", "sanghojagyong" (romanised    *)
(* here) and the Korean suffix "jeom".  The values are in thousandths.     *)
(***************************************************************************)
\* the suffix the engine writes after each number
ItemSuffix == "jeom"

\* token in item
ItemContains(item, token) == item.label = token

\* float() of the text after the colon, "pts" removed, accepts it
FloatParses(item) == ItemSuffix \in {"", "pts"}

MetricOf(item) ==
    IF ItemContains(item, "Daewoon") \/ ItemContains(item, "Grand Cycle")
    THEN "major_luck"
    ELSE IF ItemContains(item, "Seun") \/ ItemContains(item, "Annual Cycle")
    THEN "annual_luck"
    ELSE IF \/ ItemContains(item, "Interaction") \/ ItemContains(item, "Clash")
            \/ ItemContains(item, "Harmony")
    THEN "harmony"
    ELSE "none"

RECURSIVE ExtractFrom(_, _, _)
\* the loop from item i on; the first float() that raises ends it
ExtractFrom(breakdown, i, metrics) ==
    IF i > Len(breakdown) THEN metrics
    ELSE IF MetricOf(breakdown[i]) = "none" THEN ExtractFrom(breakdown, i + 1, metrics)
    ELSE IF ~FloatParses(breakdown[i]) THEN metrics
    ELSE ExtractFrom(breakdown, i + 1,
                     [metrics EXCEPT ![MetricOf(breakdown[i])] = breakdown[i].tenths * 100])

_extract_metrics(breakdown) ==
    ExtractFrom(breakdown, 1, [major_luck |-> 0, annual_luck |-> 0, harmony |-> 0])

\* lines 92-130
_build_response(engine_result, input_echo) ==
    LET keyword    == engine_result.keyword
        luck_score == engine_result.trading_luck_score
    IN  [input_echo    |-> input_echo,
         sentiment     |-> Get(KEYWORD_TO_SENTIMENT, keyword, "NEUTRAL"),
         volatility    |-> Get(VOLATILITY_MAP, engine_result.volatility_index, "LOW"),
         risk_level    |-> _score_to_risk(luck_score),
         action_signal |-> Get(KEYWORD_TO_ACTION, keyword, "HOLD"),
         strategy_tag  |-> Get(KEYWORD_TO_STRATEGY, keyword, "WAIT"),
         luck_score    |-> luck_score,
         raw_score     |-> engine_result.raw_score,
         base_score    |-> 50,
         sectors       |-> engine_result.favorable_sectors,
         metrics       |-> _extract_metrics(engine_result.breakdown)]

\* lines 185-202
FallbackResponse(input_echo) ==
    [input_echo    |-> input_echo,
     sentiment     |-> "NEUTRAL",
     volatility    |-> "LOW",
     risk_level    |-> "MED_RISK",
     action_signal |-> "HOLD",
     strategy_tag  |-> "WAIT",
     luck_score    |-> 50,
     raw_score     |-> 50,
     base_score    |-> 50,
     sectors       |-> <<"DEFI", "L2">>,
     metrics       |-> [major_luck |-> 0, annual_luck |-> 0, harmony |-> 0]]

\* what a handler's try block ends with: an exception, or the returned text;
\* engine tells whether calculate_daily_luck was called and how it ended, and
\* trinity is the score the engine computed
Raised(error, engine) ==
    [raised |-> TRUE, error |-> error, engine |-> engine, trinity |-> None]

Returned(payload, engine, trinity_result) ==
    [raised |-> FALSE, value |-> JsonDumps(payload), engine |-> engine,
     trinity |-> trinity_result]

\* lines 177-184 and 238-245: the engine call and the response built of it
EngineResponse(birth_date, birth_time, target_date, gender, input_echo) ==
    Only({IF out.raised
          THEN Raised(out.error, "raised")
          ELSE Returned(_build_response(out.result, input_echo), "returned",
                        out.trinity_score) :
             out \in {CalculateDailyLuck(birth_date, birth_time, target_date, gender)}})

\* lines 161-204
DailyLuckTry(requirement, engine_available) ==
    LET data == _parse_requirement(requirement)
        target_date == Get(data.items, "target_date", Today)
        birth_date  == Get(data.items, "birth_date", Date(1990, 1, 1))
        birth_time  == Get(data.items, "birth_time", Time(12, 0))
        gender      == Get(data.items, "gender", "M")
        input_echo  == [target_date |-> target_date, birth_date |-> birth_date,
                        birth_time |-> birth_time]
    IN  IF ~data.isDict THEN Raised("AttributeError", "not called")
        ELSE IF engine_available
        THEN EngineResponse(birth_date, birth_time, target_date, gender, input_echo)
        ELSE Returned(FallbackResponse(input_echo), "not called", None)

\* lines 218-249
DeepLuckTry(requirement, engine_available) ==
    LET data == _parse_requirement(requirement)
        birth_date  == Get(data.items, "birth_date", None)
        birth_time  == Get(data.items, "birth_time", Time(12, 0))
        target_date == Get(data.items, "target_date", Today)
        gender      == Get(data.items, "gender", "M")
        input_echo  == [genesis_date |-> birth_date, genesis_time |-> birth_time,
                        target_date |-> target_date]
    IN  IF ~data.isDict THEN Raised("AttributeError", "not called")
        ELSE IF Falsy(birth_date)
        THEN Returned([error |-> "birth_date is required for deepLuck service"],
                      "not called", None)
        ELSE IF engine_available
        THEN EngineResponse(birth_date, birth_time, target_date, gender, input_echo)
        ELSE Returned([error |-> "Engine unavailable", birth_date |-> birth_date],
                      "not called", None)

\* a handler without its except clause
ExceptionPropagates(outcome, payload) == outcome

\* lines 206-208 and 251-253: except Exception returns the error payload
ExceptReturns(outcome, payload) ==
    IF outcome.raised
    THEN Returned(payload, outcome.engine, None)
    ELSE outcome

handle_daily_luck(requirement, engine_available) ==
    Only({ExceptReturns(outcome, [error |-> IF outcome.raised THEN outcome.error ELSE "",
                                  luck_score |-> 50]) :
             outcome \in {DailyLuckTry(requirement, engine_available)}})

handle_deep_luck(requirement, engine_available) ==
    Only({ExceptReturns(outcome, [error |-> IF outcome.raised THEN outcome.error ELSE ""]) :
             outcome \in {DeepLuckTry(requirement, engine_available)}})

ApplyHandler ==
    /\ fn_ret = None
    /\ fn_arg # None
    /\ fn_ret' = IF fn_arg.handler = "handle_daily_luck"
                 THEN handle_daily_luck(fn_arg.requirement, fn_arg.ENGINE_AVAILABLE)
                 ELSE handle_deep_luck(fn_arg.requirement, fn_arg.ENGINE_AVAILABLE)
    /\ UNCHANGED fn_arg

(***************************************************************************)
(* Two calls of calculate_daily_luck (lines 225-259) whose arguments       *)
(* differ in the gender alone, in the minutes of birth_time alone, or in   *)
(* the month and day of target_date alone.                                 *)
(***************************************************************************)
PairBase ==
    [birth_date  : {Date(y, m, d) : y \in {1962, ExampleBirthYear}, m \in 1..12,
                                    d \in {1, 12, 28}},
     birth_time  : {Time(h, 30) : h \in 0..23},
     target_date : {Date(ty, 2, 20) : ty \in {1979, 2024, ExampleTargetYear}},
     gender      : {"M", "F"}]

Variants(a) ==
    {[a EXCEPT !.gender = g] : g \in {"M", "F"} \ {a.gender}}
    \cup {[a EXCEPT !.birth_time = Time(a.birth_time.hour, mi)] : mi \in {0, 59}}
    \cup {[a EXCEPT !.target_date = Date(a.target_date.y, md[1], md[2])] :
             md \in {<<1, 1>>, <<12, 31>>}}

InitPair ==
    /\ fn_arg \in UNION {{[first |-> a, second |-> b] : b \in Variants(a)} : a \in PairBase}
    /\ fn_ret = None

ApplyPair ==
    /\ fn_ret = None
    /\ fn_arg # None
    /\ fn_ret' = [first  |-> CalculateDailyLuck(fn_arg.first.birth_date,
                                                fn_arg.first.birth_time,
                                                fn_arg.first.target_date,
                                                fn_arg.first.gender),
                  second |-> CalculateDailyLuck(fn_arg.second.birth_date,
                                                fn_arg.second.birth_time,
                                                fn_arg.second.target_date,
                                                fn_arg.second.gender)]
    /\ UNCHANGED fn_arg

(***************************************************************************)
(* The specifications.  Each leaves the variables of the others at rest.   *)
(***************************************************************************)
RestEngine ==
    pc = "rest" /\ args = None /\ saju = None /\ trinity_score = None /\ ret = None

RestThreads == th = <<>> /\ log = {}

RestFn == fn_arg = None /\ fn_ret = None

RestDeep == deep_pc = "rest" /\ body = None /\ hourly_raw = <<>> /\ response = None

RestSeller ==
    /\ jobs = <<>> /\ phase = <<>>
    /\ hpc = <<>> /\ hres = <<>> /\ spc = <<>> /\ TX_LOCK = 0
    /\ job_results = <<>>
    /\ epc = <<>> /\ ejob = <<>> /\ estored = <<>>
    /\ poll_pc = "rest" /\ poll_keys = <<>> /\ processed = {}
    /\ calls = <<>>

RestSales ==
    /\ sales_file = None /\ sales_lock = SalesLockFree
    /\ sale_pc = <<>> /\ sale_log = <<>> /\ sale_hist = None

RestCache ==
    /\ now = 0 /\ backtest_source = None
    /\ backtest_cache = None /\ cache_timestamp = None
    /\ va_ret = None /\ va_hist = None

Init == InitEngine /\ RestThreads /\ RestFn /\ RestDeep /\ RestSeller /\ RestSales /\ RestCache

Next ==
    \/ CallRaises /\ UNCHANGED <<threadVars, fnVars, deepVars, sellerVars, salesVars, cacheVars>>
    \/ CallReturns /\ UNCHANGED <<threadVars, fnVars, deepVars, sellerVars, salesVars, cacheVars>>

Spec == Init /\ [][Next]_vars

InitT == RestEngine /\ InitThreads /\ RestFn /\ RestDeep /\ RestSeller /\ RestSales /\ RestCache

NextT ==
    \/ \E t \in Threads, a \in ThreadInputs : Call(t, a) /\ UNCHANGED <<engineVars, fnVars, deepVars, sellerVars, salesVars, cacheVars>>
    \/ \E t \in Threads : ValidateRaises(t) /\ UNCHANGED <<engineVars, fnVars, deepVars, sellerVars, salesVars, cacheVars>>
    \/ \E t \in Threads : ValidatePasses(t) /\ UNCHANGED <<engineVars, fnVars, deepVars, sellerVars, salesVars, cacheVars>>
    \/ \E t \in Threads : SajuStep(t) /\ UNCHANGED <<engineVars, fnVars, deepVars, sellerVars, salesVars, cacheVars>>
    \/ \E t \in Threads : ScoreStep(t) /\ UNCHANGED <<engineVars, fnVars, deepVars, sellerVars, salesVars, cacheVars>>
    \/ \E t \in Threads : MapStep(t) /\ UNCHANGED <<engineVars, fnVars, deepVars, sellerVars, salesVars, cacheVars>>

SpecThreads == InitT /\ [][NextT]_vars

InitY == RestEngine /\ RestThreads /\ InitYongsin /\ RestDeep /\ RestSeller /\ RestSales /\ RestCache

NextY == ApplyYongsin /\ UNCHANGED <<engineVars, threadVars, deepVars, sellerVars, salesVars, cacheVars>>

SpecYongsin == InitY /\ [][NextY]_vars

InitK == RestEngine /\ RestThreads /\ InitKeyword /\ RestDeep /\ RestSeller /\ RestSales /\ RestCache

NextK == ApplyKeyword /\ UNCHANGED <<engineVars, threadVars, deepVars, sellerVars, salesVars, cacheVars>>

SpecKeyword == InitK /\ [][NextK]_vars

InitD == RestEngine /\ RestThreads /\ RestFn /\ InitDeep /\ RestSeller /\ RestSales /\ RestCache

NextD ==
    \/ BodyRejected /\ UNCHANGED <<engineVars, threadVars, fnVars, sellerVars, salesVars, cacheVars>>
    \/ HandlerEntered /\ UNCHANGED <<engineVars, threadVars, fnVars, sellerVars, salesVars, cacheVars>>
    \/ HourStep /\ UNCHANGED <<engineVars, threadVars, fnVars, sellerVars, salesVars, cacheVars>>
    \/ Respond /\ UNCHANGED <<engineVars, threadVars, fnVars, sellerVars, salesVars, cacheVars>>

SpecDeep == InitD /\ [][NextD]_vars

InitS == RestEngine /\ RestThreads /\ RestFn /\ RestDeep /\ InitSeller /\ RestSales /\ RestCache

restVars == <<engineVars, threadVars, fnVars, deepVars, salesVars, cacheVars>>

NextS ==
    \/ \E j \in Jobs : on_new_task(j) /\ UNCHANGED restVars
    \/ \E j \in Jobs : HandleSkip(j) /\ UNCHANGED restVars
    \/ \E j \in Jobs : HandleReject(j) /\ UNCHANGED restVars
    \/ \E j \in Jobs : HandleUnknown(j) /\ UNCHANGED restVars
    \/ \E j \in Jobs : RejectCallEnds(j) /\ UNCHANGED restVars
    \/ \E j \in Jobs : HandleStartSign(j) /\ UNCHANGED restVars
    \/ \E j \in Jobs : SignAcquire(j) /\ UNCHANGED restVars
    \/ \E j \in Jobs : SignRaises(j) /\ UNCHANGED restVars
    \/ \E j \in Jobs : SignReturns(j) /\ UNCHANGED restVars
    \/ \E j \in Jobs : PayableEnds(j) /\ UNCHANGED restVars
    \/ \E j \in Jobs : Compute(j) /\ UNCHANGED restVars
    \/ \E j \in Jobs : Store(j) /\ UNCHANGED restVars
    \/ \E j \in Jobs : BuyerPays(j) /\ UNCHANGED restVars
    \/ \E j \in Jobs : SdkEvaluate(j) /\ UNCHANGED restVars
    \/ PollWake /\ UNCHANGED restVars
    \/ PollKey /\ UNCHANGED restVars
    \/ \E f \in Frames : EvalGet(f) /\ UNCHANGED restVars
    \/ \E f \in Frames : EvalRecompute(f) /\ UNCHANGED restVars
    \/ \E f \in Frames : EvalDeliver(f) /\ UNCHANGED restVars
    \/ \E f \in Frames : EvalEvaluate(f) /\ UNCHANGED restVars
    \/ \E f \in Frames : EvalPop(f) /\ UNCHANGED restVars

SpecSeller == InitS /\ [][NextS]_vars

InitR == RestEngine /\ RestThreads /\ InitRoute /\ RestDeep /\ RestSeller /\ RestSales /\ RestCache

NextR == ApplyRoute /\ UNCHANGED <<engineVars, threadVars, deepVars, sellerVars, salesVars, cacheVars>>

SpecRoute == InitR /\ [][NextR]_vars

InitH == RestEngine /\ RestThreads /\ InitHandler /\ RestDeep /\ RestSeller /\ RestSales /\ RestCache

NextH == ApplyHandler /\ UNCHANGED <<engineVars, threadVars, deepVars, sellerVars, salesVars, cacheVars>>

SpecHandler == InitH /\ [][NextH]_vars

InitP == RestEngine /\ RestThreads /\ InitPair /\ RestDeep /\ RestSeller /\ RestSales /\ RestCache

NextP == ApplyPair /\ UNCHANGED <<engineVars, threadVars, deepVars, sellerVars, salesVars, cacheVars>>

SpecPair == InitP /\ [][NextP]_vars

InitSa == RestEngine /\ RestThreads /\ RestFn /\ RestDeep /\ RestSeller /\ InitSales /\ RestCache

noSalesVars == <<engineVars, threadVars, fnVars, deepVars, sellerVars, cacheVars>>

NextSa ==
    \/ \E t \in Savers : SaveAcquire(t) /\ UNCHANGED noSalesVars
    \/ \E t \in Savers : SaveLoad(t) /\ UNCHANGED noSalesVars
    \/ \E t \in Savers : SaveWrite(t) /\ UNCHANGED noSalesVars
    \/ \E t \in Readers : ReadAcquire(t) /\ UNCHANGED noSalesVars
    \/ \E t \in Readers : ReadReturn(t) /\ UNCHANGED noSalesVars

\* every thread that can take a step takes one in the end
SpecSales ==
    /\ InitSa /\ [][NextSa]_vars
    /\ \A t \in Savers \cup Readers : WF_vars(NextSa /\ sale_pc'[t] # sale_pc[t])

(***************************************************************************)
(*                              The claims                                 *)
(***************************************************************************)
Abs(n) == IF n < 0 THEN 0 - n ELSE n

\* The float sum of line 415 in thousandths, from the call's locals.
UnclampedSum ==
    50000 + trinity_score.daewoon_score + trinity_score.seun_score
      + 5000 * saju.harmony_count - 5000 * saju.clash_count

(* C1: for every valid input the call returns raw_score, an integer with   *)
(* 10 <= raw_score <= 95, and trading_luck_score, which is                 *)
(* (raw_score - 10) / 85 rounded to 2 decimals (here in hundredths) and    *)
(* lies between 0 and 1.                                                   *)
ScoreWithinBounds ==
    pc = "returned" =>
        /\ ret.raw_score \in 10..95
        /\ ret.trading_luck_score \in 0..100
        /\ 2 * Abs(85 * ret.trading_luck_score - 100 * (ret.raw_score - 10)) <= 85

\* C1's case: a sum below 10 that the clamp raises to 10, normalised to 0.
LowerClampActs ==
    /\ pc = "returned"
    /\ UnclampedSum < 9500
    /\ ret.raw_score = 10
    /\ ret.trading_luck_score = 0

MonthLengths == <<31, 28, 31, 30, 31, 30, 31, 31, 30, 31, 30, 31>>

IsCalendarDate(text) ==
    /\ text.wellFormed
    /\ 1 <= text.y /\ text.y <= 9999
    /\ 1 <= text.m /\ text.m <= 12
    /\ 1 <= text.d
    /\ text.d <= MonthLengths[text.m]
                   + (IF text.m = 2 /\ text.y % 4 = 0 /\ (text.y % 100 # 0 \/ text.y % 400 = 0)
                      THEN 1 ELSE 0)

HasValidHour(text) == text.hourInt /\ text.hour >= 0 /\ text.hour <= 23

(* C2: when birth_date or target_date is no calendar date, when birth_time *)
(* has no hour that parses as an integer in 0..23, or when gender is       *)
(* neither "M" nor "F", the call raises the ValueError and produces no     *)
(* score record.                                                           *)
InvalidInputRaises ==
    (/\ pc # "called"
     /\ \/ ~IsCalendarDate(args.birth_date)
        \/ ~IsCalendarDate(args.target_date)
        \/ ~HasValidHour(args.birth_time)
        \/ args.gender \notin {"M", "F"})
    => /\ pc = "raised"
       /\ ret.error = "ValueError"
       /\ saju = None
       /\ trinity_score = None

\* C2's case: the gender alone is wrong (the last check), and the call raised.
BadGenderRaised ==
    /\ pc = "raised"
    /\ IsCalendarDate(args.birth_date)
    /\ IsCalendarDate(args.target_date)
    /\ args.birth_time.colon
    /\ HasValidHour(args.birth_time)
    /\ args.gender = "X"

SoloOutcome(a) ==
    LET out == CalculateDailyLuck(a.birth_date, a.birth_time, a.target_date, a.gender)
    IN  IF out.raised
        THEN [raised |-> TRUE, message |-> out.message]
        ELSE [raised |-> FALSE, result |-> out.result]

(* C3: every call completed on the shared engine, whatever calls were      *)
(* completed before it and whatever calls other threads had in progress,   *)
(* has the outcome the same call has when it runs alone; so two calls with *)
(* the same arguments have the same outcome.                               *)
CallsAreIndependent ==
    /\ \A e \in log : e.out = SoloOutcome(e.args)
    /\ \A e1 \in log : \A e2 \in log : e1.args = e2.args => e1.out = e2.out

\* C3's case: the same call completed alone and beside another thread's call,
\* after other calls.
SameCallAloneAndOverlapped ==
    /\ Cardinality({e.args : e \in log}) >= 3
    /\ \E e1 \in log : \E e2 \in log :
          /\ e1.args = e2.args
          /\ ~e1.out.raised
          /\ e1.overlapped
          /\ ~e2.overlapped

ExampleArgs ==
    [birth_date  |-> Date(ExampleBirthYear, 5, 15), birth_time |-> Time(14, 30),
     target_date |-> Date(ExampleTargetYear, 2, 20), gender |-> "M"]

DominantSectors ==
    {element_to_sector[e] :
        e \in {x \in DOMAIN saju.elements :
                  \A y \in DOMAIN saju.elements : saju.elements[x] >= saju.elements[y]}}

(* C4: the call (1990-05-15, 14:30, 2026-02-20, M) returns raw_score 74    *)
(* (the sum is 50 + 19.5 + 0 + 5 = 74.5, and round() takes a tie to the    *)
(* even integer), and favorable_sectors is the sector list of the element  *)
(* with the highest tally.                                                 *)
ExampleReturns74 ==
    (pc = "returned" /\ args = ExampleArgs) =>
        /\ ret.raw_score = 74
        /\ ret.favorable_sectors \in DominantSectors

\* C4 as claimed: raw_score 85.
ExampleReturns85 ==
    (pc = "returned" /\ args = ExampleArgs) =>
        /\ ret.raw_score = 85
        /\ ret.favorable_sectors \in DominantSectors

\* C4's case: the example call has returned.
ExampleReturned ==
    /\ pc = "returned"
    /\ args = ExampleArgs
    /\ UnclampedSum = 74500
    /\ ret.favorable_sectors = <<"INFRASTRUCTURE", "LAYER1", "BTC">>

(* C5: raw_score is the sum 50 + decade-cycle score + year-cycle score     *)
(* + 5 per harmony pair - 5 per clash pair, rounded to the nearest integer *)
(* (at a tie, the even one) and clamped to 10..95.                         *)
RawScoreIsClampedRoundedSum ==
    pc = "returned" =>
        \E r \in -10..130 :
            /\ 2 * Abs(1000 * r - UnclampedSum) <= 1000
            /\ (2 * Abs(1000 * r - UnclampedSum) = 1000 => r % 2 = 0)
            /\ ret.raw_score = (IF r < 10 THEN 10 ELSE IF r > 95 THEN 95 ELSE r)

\* C5's case: a tie, with clashes and harmonies both counted.
TieWithClashAndHarmony ==
    /\ pc = "returned"
    /\ UnclampedSum % 1000 = 500
    /\ saju.clash_count > 0
    /\ saju.harmony_count > 0
    /\ ret.raw_score \in 11..94

StemElementByIndex ==
    <<"mok", "mok", "hwa", "hwa", "to", "to", "geum", "geum", "su", "su">>

BranchElementByIndex ==
    <<"su", "to", "mok", "mok", "to", "hwa", "hwa", "to", "geum", "geum", "to", "su">>

\* e(x): +30 favorable, +15 auxiliary, -20 the element controlling the
\* favorable one (Wood > Earth > Water > Fire > Metal > Wood), else 0
FavorableRule(element) ==
    LET controlled == [mok |-> "to", to |-> "su", su |-> "hwa", hwa |-> "geum", geum |-> "mok"]
    IN  IF element = saju.yongsin_data.yongsin THEN 30
        ELSE IF element = saju.yongsin_data.heesin THEN 15
        ELSE IF controlled[element] = saju.yongsin_data.yongsin THEN -20
        ELSE 0

\* 0.3 e(stem) + 0.7 e(branch) in thousandths, by 0-based indices
PairScore(stem_index, branch_index) ==
    300 * FavorableRule(StemElementByIndex[stem_index + 1])
      + 700 * FavorableRule(BranchElementByIndex[branch_index + 1])

CycleNumber == (args.target_date.y - args.birth_date.y + 1 - 3) \div 10

DecadePairScore(offset) ==
    PairScore((((args.birth_date.m - 1) % 10) + offset) % 10,
              (((args.birth_date.m - 1) % 12) + offset) % 12)

(* C6: the decade-cycle score is 0.3 e(stem) + 0.7 e(branch) of the month  *)
(* pillar's stem index (mod 10) and branch index (mod 12) offset by c + 1, *)
(* c = (target_year - birth_year + 1 - 3) div 10.                          *)
DecadeScoreOffsetByCyclePlusOne ==
    pc = "returned" => trinity_score.daewoon_score = DecadePairScore(CycleNumber + 1)

\* C6 as claimed: the offset is c.
DecadeScoreOffsetByCycle ==
    pc = "returned" => trinity_score.daewoon_score = DecadePairScore(CycleNumber)

\* C6's case: a target before the birth (c < 0) where the two offsets score
\* differently.
NegativeCycleScored ==
    /\ pc = "returned"
    /\ CycleNumber < 0
    /\ DecadePairScore(CycleNumber) # DecadePairScore(CycleNumber + 1)
    /\ trinity_score.daewoon_score # 0

(* C7: the year-cycle score is (0.3 e(stem) + 0.7 e(branch)) times exactly *)
(* 2/3, for the stem index (T - 2024) mod 10 and the branch index          *)
(* (T - 2024 + 4) mod 12 of the target year T.                             *)
YearScoreIsTwoThirds ==
    pc = "returned" =>
        3 * trinity_score.seun_score =
            2 * PairScore((args.target_date.y - 2024) % 10,
                          (args.target_date.y - 2024 + 4) % 12)

Production == <<"wood", "fire", "earth", "metal", "water">>

KoName(element) ==
    [wood |-> "mok", fire |-> "hwa", earth |-> "to", metal |-> "geum", water |-> "su"][element]

(* C8: for every tally the favorable element has a minimal count, and the  *)
(* auxiliary favorable element is the one before it in the production      *)
(* cycle Wood -> Fire -> Earth -> Metal -> Water -> Wood.                  *)
YongsinIsMinimalHeesinGenerates ==
    fn_ret # None =>
        \E i \in 1..5 :
            /\ fn_ret.yongsin = KoName(Production[i])
            /\ \A j \in 1..5 : fn_arg[Production[i]] <= fn_arg[Production[j]]
            /\ fn_ret.heesin = KoName(Production[IF i = 1 THEN 5 ELSE i - 1])

\* C8's case: a tally of 8 whose minimum is shared, Wood favorable, so that
\* the generator is found around the end of the cycle.
TiedMinimumWraps ==
    /\ fn_ret # None
    /\ SumElements(fn_arg) = 8
    /\ fn_arg["wood"] = fn_arg["metal"]
    /\ fn_ret.yongsin = "mok"
    /\ fn_ret.heesin = "su"

(* C9: the four pillars are the stems and branches at the indices          *)
(* year ((Y-4) mod 10, (Y-4) mod 12), month ((M-1) mod 10, (M-1) mod 12),  *)
(* day ((D-1) mod 10, (D-1) mod 12), hour branch ((h+1) div 2) mod 12 and  *)
(* hour stem (2 * day stem index + hour branch index) mod 10.              *)
PillarsFollowIndexFormulas ==
    pc = "returned" =>
        LET Y == args.birth_date.y
            M == args.birth_date.m
            D == args.birth_date.d
            h == args.birth_time.hour
            hb == ((h + 1) \div 2) % 12
        IN  /\ saju.pillars.year.gan = HEAVENLY_STEMS[((Y - 4) % 10) + 1]
            /\ saju.pillars.year.zhi = EARTHLY_BRANCHES[((Y - 4) % 12) + 1]
            /\ saju.pillars.month.gan = HEAVENLY_STEMS[((M - 1) % 10) + 1]
            /\ saju.pillars.month.zhi = EARTHLY_BRANCHES[((M - 1) % 12) + 1]
            /\ saju.pillars.day.gan = HEAVENLY_STEMS[((D - 1) % 10) + 1]
            /\ saju.pillars.day.zhi = EARTHLY_BRANCHES[((D - 1) % 12) + 1]
            /\ saju.pillars.hour.zhi = EARTHLY_BRANCHES[hb + 1]
            /\ saju.pillars.hour.gan = HEAVENLY_STEMS[((2 * ((D - 1) % 10) + hb) % 10) + 1]

\* C9's case: hour 23 (the branch index wraps to 0) on a 31st (the day
\* indices wrap) of December.
LastHourOfLastDay ==
    /\ pc = "returned"
    /\ args.birth_date.m = 12
    /\ args.birth_date.d = 31
    /\ args.birth_time.hour = 23
    /\ saju.pillars.hour.zhi = "zi"
    /\ saju.pillars.day.gan = "jia"

(* C10: the five counts of the tally are non-negative integers that sum to *)
(* exactly 8.                                                              *)
TallySumsToEight ==
    pc = "returned" =>
        /\ DOMAIN saju.elements = {"wood", "fire", "earth", "metal", "water"}
        /\ \A e \in DOMAIN saju.elements : saju.elements[e] \in 0..8
        /\ saju.elements["wood"] + saju.elements["fire"] + saju.elements["earth"]
             + saju.elements["metal"] + saju.elements["water"] = 8

\* C10's case: a lopsided tally, one element absent and one counted 5 times.
LopsidedTally ==
    /\ pc = "returned"
    /\ \E e \in DOMAIN saju.elements : saju.elements[e] = 0
    /\ \E e \in DOMAIN saju.elements : saju.elements[e] >= 5

Branches ==
    <<saju.pillars.year.zhi, saju.pillars.month.zhi, saju.pillars.day.zhi,
      saju.pillars.hour.zhi>>

\* the unordered pairs of the four positions whose two branches are a pair of S
PairsIn(S) ==
    {q \in SUBSET (1..4) : Cardinality(q) = 2 /\ {Branches[i] : i \in q} \in S}

ClashSet ==
    {{"zi", "wu_b"}, {"chou", "wei"}, {"yin", "shen"},
     {"mao", "you"}, {"chen", "xu"}, {"si", "hai"}}

HarmonySet ==
    {{"zi", "chou"}, {"yin", "hai"}, {"mao", "xu"},
     {"chen", "you"}, {"si", "shen"}, {"wu_b", "wei"}}

(* C11: clash_count and harmony_count are integers in 0..6, the number of  *)
(* unordered pairs among the four pillar branches that are one of the six  *)
(* clash pairs, respectively one of the six harmony pairs, in either       *)
(* order.                                                                  *)
PairCountsAreSetMemberships ==
    pc = "returned" =>
        /\ saju.clash_count \in 0..6
        /\ saju.harmony_count \in 0..6
        /\ saju.clash_count = Cardinality(PairsIn(ClashSet))
        /\ saju.harmony_count = Cardinality(PairsIn(HarmonySet))

\* C11's case: two clashes and two harmonies among the six pairs, one of them
\* spelled by the branches in the order opposite to the table's.
TwoClashesTwoHarmonies ==
    /\ pc = "returned"
    /\ saju.clash_count = 2
    /\ saju.harmony_count = 2
    /\ \E i \in 1..4 : \E j \in (i+1)..4 :
          InList(<<Branches[j], Branches[i]>>, CLASH_PAIRS)

KeywordOrder == <<"STRONG_BEARISH", "BEARISH", "NEUTRAL", "BULLISH", "STRONG_BULLISH">>

KeywordRank(k) == CHOOSE i \in 1..5 : KeywordOrder[i] = k

(* C12: over 10..95 the keyword does not decrease as the score grows, in   *)
(* the order STRONG_BEARISH < BEARISH < NEUTRAL < BULLISH <                *)
(* STRONG_BULLISH, and it changes exactly at the scores 30, 45, 65 and 80. *)
KeywordMonotoneWithThresholds ==
    fn_ret # None =>
        /\ fn_ret.low \in {KeywordOrder[i] : i \in 1..5}
        /\ fn_ret.high \in {KeywordOrder[i] : i \in 1..5}
        /\ (fn_arg.low <= fn_arg.high =>
               KeywordRank(fn_ret.low) <= KeywordRank(fn_ret.high))
        /\ (fn_arg.high = fn_arg.low + 1 =>
               (fn_ret.low # fn_ret.high <=> fn_arg.high \in {30, 45, 65, 80}))
        /\ KeywordRank(fn_ret.high) =
               1 + Cardinality({t \in {30, 45, 65, 80} : fn_arg.high >= t})

\* C12's case: the scores 79 and 80, on the two sides of the last threshold.
KeywordChangesAtEighty ==
    /\ fn_ret # None
    /\ fn_arg = [low |-> 79, high |-> 80]
    /\ fn_ret = [low |-> "BULLISH", high |-> "STRONG_BULLISH"]

(* C13: volatility_index is HIGH exactly when clash_count > 2, else LOW;   *)
(* market_sentiment is STABLE exactly when harmony_count > 1, else         *)
(* VOLATILE; wealth_opportunity is HIGH when raw_score >= 70, MEDIUM when  *)
(* 50 <= raw_score < 70, and LOW otherwise.                                *)
SignalsFollowCountsAndScore ==
    pc = "returned" =>
        /\ ret.volatility_index \in {"HIGH", "LOW"}
        /\ (ret.volatility_index = "HIGH" <=> saju.clash_count > 2)
        /\ ret.market_sentiment \in {"STABLE", "VOLATILE"}
        /\ (ret.market_sentiment = "STABLE" <=> saju.harmony_count > 1)
        /\ ret.wealth_opportunity \in {"HIGH", "MEDIUM", "LOW"}
        /\ (ret.wealth_opportunity = "HIGH" <=> ret.raw_score >= 70)
        /\ (ret.wealth_opportunity = "MEDIUM" <=> (50 <= ret.raw_score /\ ret.raw_score < 70))

\* C13's case: three clashes (the least that is HIGH) at a score of 50..69.
ThreeClashesMediumWealth ==
    /\ pc = "returned"
    /\ saju.clash_count = 3
    /\ ret.volatility_index = "HIGH"
    /\ ret.market_sentiment = "VOLATILE"
    /\ ret.wealth_opportunity = "MEDIUM"

SectorList ==
    [fire  |-> <<"MEME", "AI", "VOLATILE">>,
     earth |-> <<"INFRASTRUCTURE", "LAYER1", "BTC">>,
     water |-> <<"DEFI", "EXCHANGE", "LIQUIDITY">>,
     metal |-> <<"RWA", "STABLECOIN">>,
     wood  |-> <<"NEW_LISTING", "GAMEFI", "NFT">>]

MostFrequent ==
    {e \in DOMAIN saju.elements :
        \A o \in DOMAIN saju.elements : saju.elements[e] >= saju.elements[o]}

\* the first of the most frequent elements in an order
FirstMostFrequent(order) ==
    order[CHOOSE k \in 1..5 :
            /\ order[k] \in MostFrequent
            /\ \A j \in 1..(k-1) : order[j] \notin MostFrequent]

(* C14: favorable_sectors is the fixed sector list of the most frequent    *)
(* element of the tally; when several elements share the maximum, of the   *)
(* first of them in the order of the tally: Wood, Fire, Earth, Metal,      *)
(* Water.                                                                  *)
SectorsOfFirstMaxInTallyOrder ==
    pc = "returned" =>
        ret.favorable_sectors =
            SectorList[FirstMostFrequent(<<"wood", "fire", "earth", "metal", "water">>)]

\* C14 as claimed: the tie goes to the first in the order of the sector
\* table: Fire, Earth, Water, Metal, Wood.
SectorsOfFirstMaxInSectorOrder ==
    pc = "returned" =>
        ret.favorable_sectors =
            SectorList[FirstMostFrequent(<<"fire", "earth", "water", "metal", "wood">>)]

\* C14's case: Wood and Fire share the maximum, and Wood's sectors are
\* returned.
WoodWinsTieWithFire ==
    /\ pc = "returned"
    /\ {"wood", "fire"} \subseteq MostFrequent
    /\ ret.favorable_sectors = <<"NEW_LISTING", "GAMEFI", "NFT">>

\* the normalized score of the single engine call for birth hour h with the
\* body's dates and gender
SingleCallScore(h) ==
    CalculateDailyLuck(body.birth_date, Time(h, 0),
                       IF body.target_date = None THEN Today ELSE body.target_date,
                       IF body.endpoint = "deep_signal" THEN "M" ELSE body.gender
                      ).result.trading_luck_score

ValidBody ==
    /\ IsCalendarDate(body.birth_date)
    /\ body.target_date # None => IsCalendarDate(body.target_date)
    /\ body.endpoint = "deep_luck" =>
          /\ body.gender \in {"M", "F"}
          /\ StrptimeTimeOk(body.birth_time)

ValidArgs ==
    /\ IsCalendarDate(args.birth_date)
    /\ IsCalendarDate(args.target_date)
    /\ args.birth_time.colon
    /\ HasValidHour(args.birth_time)
    /\ args.gender \in {"M", "F"}

(* C16: once the validation has passed, the call completes with a result:  *)
(* no table lookup raises, for every valid birth date, every birth hour    *)
(* 0..23 and every target date, those before the birth date included.      *)
ValidCallCompletes ==
    (pc # "called" /\ ValidArgs) =>
        /\ pc = "returned"
        /\ DOMAIN ret = {"trading_luck_score", "favorable_sectors", "volatility_index",
                         "market_sentiment", "wealth_opportunity", "raw_score",
                         "breakdown", "keyword"}
        /\ saju # None
        /\ trinity_score # None

\* C16's case: a target year before the birth year (a negative age and a
\* negative decade-cycle number), born in the last hour of the day.
TargetBeforeBirthCompleted ==
    /\ pc = "returned"
    /\ args.target_date.y < args.birth_date.y
    /\ CycleNumber < 0
    /\ args.birth_time.hour = 23
    /\ ret.raw_score \in 10..95

(***************************************************************************)
(* The seller's calls for a job                                            *)
(***************************************************************************)
Increases(j, call) == calls'[j][call] > calls[j][call]

AcceptIssued(j) == calls[j]["sign(True)"] + calls[j]["job.accept"] > 0

(* C17: the seller's calls for a job come in the order accept, compute,    *)
(* deliver, evaluate: a result is computed, stored, delivered or evaluated *)
(* only once the job's accepting call has been issued, a result is         *)
(* delivered only once it was computed, and evaluate(True) is called only  *)
(* once job.deliver was.                                                   *)
AcceptComputeDeliverEvaluate ==
    [][\A j \in Jobs :
          /\ (\/ Increases(j, "_call_handler")
              \/ Increases(j, "job_results[job_id] =")
              \/ Increases(j, "job.deliver")
              \/ Increases(j, "evaluate(True)")) => AcceptIssued(j)
          /\ Increases(j, "job.deliver") => calls[j]["_call_handler"] > 0
          /\ Increases(j, "evaluate(True)") => calls[j]["job.deliver"] > 0]_vars

\* the threads inside a call that signs on the chain
Signing ==
    {<<"job thread", j>> : j \in {k \in Jobs : hpc[k] = "rejecting"}}
        \cup {<<"signing thread", j>> : j \in {k \in Jobs : spc[k] \in {"signing", "paying"}}}

(* C18: at any time at most one thread is inside an outbound signing call  *)
(* (memo_to_sign.sign to accept or to reject, job.accept, job.reject,      *)
(* job.create_payable_requirement).                                        *)
SigningCallsSerialized == Cardinality(Signing) <= 1

(* C19: job.deliver is called at most once for each job id.                *)
DeliverAtMostOnce == \A j \in Jobs : calls[j]["job.deliver"] <= 1

\* the job's requirement text holds a blocked keyword
TextHasBlockedKeyword(job) ==
    IF job.requirement.kind = "text"
    THEN job.requirement.blocked
    ELSE job.requirement.content.blocked

\* the job's requirement, serialized, is longer than 1024 characters
SerializedTooLong(job) == safe_parse_requirement(job.requirement).long

Rejectable(job) ==
    \/ ServiceName(job) # ""
           /\ Lower(ServiceName(job)) \notin {Lower(x) : x \in SUPPORTED_SERVICES}
    \/ TextHasBlockedKeyword(job)
    \/ SerializedTooLong(job)

(* C20: for a job with an unsupported non-empty service name, a blocked    *)
(* keyword in its requirement text or a serialized requirement longer than *)
(* 1024 characters, no accepting call and no payment request is issued,    *)
(* no result is stored and no sale is recorded.                            *)
RejectableJobGetsNothing ==
    \A j \in Jobs :
        Rejectable(jobs[j]) =>
            /\ ~AcceptIssued(j)
            /\ calls[j]["create_payable_requirement"] = 0
            /\ calls[j]["job_results[job_id] ="] = 0
            /\ ~HasKey(job_results, j)
            /\ calls[j]["save_sale"] = 0

InitC ==
    RestEngine /\ RestThreads /\ RestFn /\ RestDeep /\ RestSeller /\ RestSales /\ InitCache

noCacheVars == <<engineVars, threadVars, fnVars, deepVars, sellerVars, salesVars>>

NextC ==
    \/ \E d \in ClockSteps : Tick(d) /\ UNCHANGED noCacheVars
    \/ SourceChanges /\ UNCHANGED noCacheVars
    \/ \E force_refresh \in BOOLEAN : verify_accuracy(force_refresh) /\ UNCHANGED noCacheVars

SpecCache == InitC /\ [][NextC]_vars

\* the supported service a name spells, whatever its case
NamedService(name) ==
    CHOOSE k \in DOMAIN SERVICE_PRICES : Lower(k) = Lower(name)

IsSupportedName(name) == \E k \in DOMAIN SERVICE_PRICES : Lower(k) = Lower(name)

(* C21: a job whose service name is a supported one is routed to that      *)
(* service at that service's price, whatever keys its requirement has, and *)
(* on_evaluate's routing gives what _handle_new_task's gave.               *)
RoutedByServiceName ==
    (fn_ret # None /\ DOMAIN fn_ret = {"new_task", "evaluate"}
        /\ IsSupportedName(ServiceName(fn_arg))) =>
        /\ fn_ret.new_task = [service_key |-> NamedService(ServiceName(fn_arg)),
                              revenue_val |-> SERVICE_PRICES[NamedService(ServiceName(fn_arg))]]
        /\ fn_ret.evaluate = fn_ret.new_task

(***************************************************************************)
(* The sales log                                                           *)
(***************************************************************************)
SalesLogNow == load_sales_log_unsafe(sales_file)

\* no save_sale failed so far: the log holds the initial sales and then one
\* sale of each call that returned, and total_sales has grown by their number
NoLostSale ==
    sale_hist.failed = {} =>
        LET n == Cardinality(sale_hist.saved)
        IN  /\ SalesLogNow.total_sales = sale_hist.init.total_sales + n
            /\ Len(SalesLogNow.sales) = Len(sale_hist.init.sales) + n
            /\ SubSeq(SalesLogNow.sales, 1, Len(sale_hist.init.sales)) = sale_hist.init.sales
            /\ \A t \in sale_hist.saved :
                  \E i \in Len(sale_hist.init.sales) + 1 .. Len(SalesLogNow.sales) :
                      SalesLogNow.sales[i] = SaleOf(t)
            /\ sale_hist.init.total_sales = Len(sale_hist.init.sales)
                  => SalesLogNow.total_sales = Len(SalesLogNow.sales)

AllSalesCallsReturned == \A t \in Savers \cup Readers : sale_pc[t] = "done"

(* C22: concurrent save_sale calls lose no update: while none has failed,  *)
(* total_sales and the sales list have grown by the number of calls that   *)
(* returned (so they stay equal when they were), and every call returns:   *)
(* save_sale never waits for the lock it holds.                            *)
SaveSaleAtomicAndReturns == []NoLostSale /\ <>AllSalesCallsReturned

AllSalesSavedAroundARead ==
    /\ sale_hist.saved = Savers
    /\ AllSalesCallsReturned
    /\ sale_hist.init.total_sales = 1
    /\ sale_log[0] # None /\ sale_log[0].total_sales = 2
    /\ SalesLogNow.total_sales = 1 + NumSavers

(***************************************************************************)
(* The cache of verify_accuracy                                            *)
(***************************************************************************)
\* a result was stored by an earlier call less than CACHE_TTL_SECONDS ago
StoredAndFresh == va_hist.stored # NoReport /\ now - va_hist.at < CACHE_TTL_SECONDS

HasError(text) == text.kind = "json" /\ "error" \in DOMAIN text.content

WithoutBirthDate(requirement) ==
    "birth_date" \notin DOMAIN _parse_requirement(requirement).items

(* C24: handle_daily_luck and handle_deep_luck never raise; they return a   *)
(* JSON text, which has an "error" field whenever the engine call raised,   *)
(* and handle_deep_luck without a birth_date returns an error payload       *)
(* without calling the engine.                                              *)
HandlersNeverRaise ==
    fn_ret # None =>
        /\ ~fn_ret.raised
        /\ fn_ret.value.kind = "json"
        /\ fn_ret.engine = "raised" => HasError(fn_ret.value)
        /\ (fn_arg.handler = "handle_deep_luck" /\ WithoutBirthDate(fn_arg.requirement))
               => HasError(fn_ret.value) /\ fn_ret.engine = "not called"

\* the engine rejected the hour 24 of a JSON requirement and the handler
\* returned the error payload
EngineErrorReturnedAsPayload ==
    /\ fn_ret # None
    /\ fn_arg.requirement.kind = "json"
    /\ fn_ret.engine = "raised"
    /\ ~fn_ret.raised
    /\ HasError(fn_ret.value)

(* C25: in every successful response the metrics major_luck, annual_luck    *)
(* and harmony are the decade-cycle, year-cycle and interaction             *)
(* contributions the engine printed in its breakdown for the request.       *)
MetricsAreEngineContributions ==
    (fn_ret # None /\ fn_ret.engine = "returned") =>
        LET metrics == fn_ret.value.content.metrics
            ts      == fn_ret.trinity
        IN  /\ metrics.major_luck = FormatTenths(ts.daewoon_score) * 100
            /\ metrics.annual_luck = FormatTenths(ts.seun_score) * 100
            /\ metrics.harmony = ts.interaction_score * 1000

(***************************************************************************)
(* Claims about the engine's contributions (Spec).                         *)
(***************************************************************************)
(* C26: for every valid input the decade-cycle contribution lies within     *)
(* [-30, +30], the year-cycle contribution within [-20, +20] and the        *)
(* interaction contribution within [-10, +10].                              *)
ContributionsWithinAnnotatedRanges ==
    (pc = "returned" /\ ValidArgs) =>
        /\ trinity_score.daewoon_score \in -30000..30000
        /\ trinity_score.seun_score \in -20000..20000
        /\ trinity_score.interaction_score \in -10..10

(***************************************************************************)
(* Claims about what the result depends on (SpecPair).                     *)
(***************************************************************************)
(* C27: two valid calls of calculate_daily_luck that differ only in gender, *)
(* only in the minutes of birth_time, or only in the month and day of       *)
(* target_date return identical results.                                    *)
ResultIgnoresGenderMinutesTargetDay ==
    fn_ret # None =>
        /\ ~fn_ret.first.raised
        /\ ~fn_ret.second.raised
        /\ fn_ret.first.result = fn_ret.second.result

\* two calls that differ in the minutes of birth_time returned the same
\* result, which is not the neutral one
SameResultAcrossMinutes ==
    /\ fn_ret # None
    /\ fn_arg.first.birth_time.minute # fn_arg.second.birth_time.minute
    /\ ~fn_ret.first.raised
    /\ fn_ret.first.result = fn_ret.second.result
    /\ fn_ret.first.result.raw_score # 50

(***************************************************************************)
(* Claims about the birth hours of the hourly variant (SpecDeep).          *)
(***************************************************************************)
\* the entry of an hour without its hour
HourResult(entry) == [entry EXCEPT !.hour = 0]

HourScores == [i \in 1..Len(hourly_raw) |-> hourly_raw[i].score]

(* C28: with the birth date, target date and gender fixed, the birth hours  *)
(* 23 and 0 give the same result, and so do the hours 2k-1 and 2k for k in  *)
(* 1..11; the 24 results hold at most 12 distinct ones, and the first hour  *)
(* with the maximum (or the minimum) score is never 22 or 23.               *)
HourPairsShareResults ==
    (deep_pc = "done" /\ response.status = 200) =>
        /\ HourResult(hourly_raw[24]) = HourResult(hourly_raw[1])
        /\ \A k \in 1..11 :
              HourResult(hourly_raw[2 * k]) = HourResult(hourly_raw[2 * k + 1])
        /\ Cardinality({HourResult(hourly_raw[i]) : i \in 1..24}) <= 12
        /\ FirstWithScore(hourly_raw, SeqMax(HourScores)).hour \notin {22, 23}
        /\ FirstWithScore(hourly_raw, SeqMin(HourScores)).hour \notin {22, 23}

\* the hour 23 has the day's maximum, which the hour 1 has not, and the day
\* has eight or more distinct results
LastHourHasTheMaximum ==
    /\ deep_pc = "done"
    /\ response.status = 200
    /\ hourly_raw[24].score = SeqMax(HourScores)
    /\ hourly_raw[2].score < SeqMax(HourScores)
    /\ Cardinality({HourResult(hourly_raw[i]) : i \in 1..24}) >= 8

(***************************************************************************)
(* Claims about the clash and harmony counts (Spec).                       *)
(***************************************************************************)
(* C29: for every valid input clash_count <= 4, harmony_count <= 4 and      *)
(* clash_count + harmony_count <= 4, no pair of branches being both a       *)
(* clash and a harmony; the interaction score is a multiple of 5 in         *)
(* [-20, +20].                                                              *)
ClashAndHarmonyAtMostFour ==
    (pc = "returned" /\ ValidArgs) =>
        /\ saju.clash_count <= 4
        /\ saju.harmony_count <= 4
        /\ saju.clash_count + saju.harmony_count <= 4
        /\ PairsIn(ClashSet) \cap PairsIn(HarmonySet) = {}
        /\ trinity_score.interaction_score % 5 = 0
        /\ trinity_score.interaction_score \in -20..20

\* four of the six pairs clash: the interaction score is -20
FourClashes ==
    /\ pc = "returned"
    /\ ValidArgs
    /\ saju.clash_count = 4
    /\ saju.harmony_count = 0
    /\ trinity_score.interaction_score = -20

====
